---- MODULE Spec2Model ----
(***************************************************************************)
(* DeltaLux offset light group (src/light.py): the brightness mapping of   *)
(* OffsetLightGroup._calculate_light_brightness, and the state machine of  *)
(* async_turn_on / async_turn_off / async_state_changed_listener.          *)
(***************************************************************************)
EXTENDS Integers, Sequences, FiniteSets, TLC

(***************************************************************************)
(* Python float arithmetic.  The source computes brightness with `/` and   *)
(* `*` on Python floats (IEEE-754 binary64, round to nearest even) and     *)
(* truncates with int().  A float is [sign, mant, exp] with value          *)
(* sign * mant * 2^exp, mant a sequence of exactly MantBits bits (most     *)
(* significant first, leading bit 1); zero has the empty mantissa.  Every  *)
(* operation computes the exact result on bit sequences and rounds once.   *)
(***************************************************************************)
MantBits == 53

\* a dividend is extended with zero bits to this length before the long
\* division, so that the quotient has more than MantBits significant bits
DividendBits == 72

Zeros(k) == IF k <= 0 THEN << >> ELSE [i \in 1..k |-> 0]

RECURSIVE NatToBits(_)
NatToBits(n) == IF n = 0 THEN << >> ELSE Append(NatToBits(n \div 2), n % 2)

RECURSIVE BitsToNat(_)
BitsToNat(b) ==
  IF b = << >> THEN 0
  ELSE 2 * BitsToNat(SubSeq(b, 1, Len(b) - 1)) + b[Len(b)]

\* drop the leading zero bits
StripZeros(b) ==
  IF \A i \in 1..Len(b) : b[i] = 0 THEN << >>
  ELSE SubSeq(b, CHOOSE i \in 1..Len(b) :
                   b[i] = 1 /\ \A j \in 1..(i - 1) : b[j] = 0,
              Len(b))

PadTo(b, n) == IF n <= Len(b) THEN b ELSE Zeros(n - Len(b)) \o b

Reverse(s) == IF Len(s) = 0 THEN << >> ELSE [i \in 1..Len(s) |-> s[Len(s) + 1 - i]]

\* The carry-propagating loops below scan a sequence from its first element,
\* split in halves: the first half, then the rest with the carry out of the
\* first half.  A result is [bits, carry].
Joined(first, rest) == [bits |-> first.bits \o rest.bits, carry |-> rest.carry]

\* long division of (r, b) by a small positive natural c, b most significant
\* bit first, r < c the remainder carried in: quotient bits and remainder
RECURSIVE DivRem(_, _, _), DivRest(_, _, _)
DivRem(b, c, r) ==
  IF Len(b) = 0 THEN [bits |-> << >>, carry |-> r]
  ELSE IF Len(b) = 1
  THEN [bits  |-> <<(2 * r + b[1]) \div c>>,
        carry |-> (2 * r + b[1]) % c]
  ELSE DivRest(SubSeq(b, Len(b) \div 2 + 1, Len(b)), c,
               DivRem(SubSeq(b, 1, Len(b) \div 2), c, r))

DivRest(b, c, first) == Joined(first, DivRem(b, c, first.carry))

DivSmall(b, c) ==
  LET d == DivRem(b, c, 0) IN [quot |-> d.bits, rem |-> d.carry]

\* b * c + carry, b least significant bit first
RECURSIVE MulCarry(_, _, _), MulRest(_, _, _)
MulCarry(b, c, carry) ==
  IF Len(b) = 0 THEN [bits |-> << >>, carry |-> carry]
  ELSE IF Len(b) = 1
  THEN [bits  |-> <<(b[1] * c + carry) % 2>>,
        carry |-> (b[1] * c + carry) \div 2]
  ELSE MulRest(SubSeq(b, Len(b) \div 2 + 1, Len(b)), c,
               MulCarry(SubSeq(b, 1, Len(b) \div 2), c, carry))

MulRest(b, c, first) == Joined(first, MulCarry(b, c, first.carry))

\* b * c for a bit sequence b (most significant bit first) and a natural c
MulSmall(b, c) ==
  LET m == MulCarry(Reverse(b), c, 0)
  IN  NatToBits(m.carry) \o Reverse(m.bits)

\* a + b + carry on sequences of equal length, least significant bit first
RECURSIVE AddCarry(_, _, _), AddRest(_, _, _)
AddCarry(a, b, carry) ==
  IF Len(a) = 0 THEN [bits |-> << >>, carry |-> carry]
  ELSE IF Len(a) = 1
  THEN [bits  |-> <<(a[1] + b[1] + carry) % 2>>,
        carry |-> (a[1] + b[1] + carry) \div 2]
  ELSE AddRest(SubSeq(a, Len(a) \div 2 + 1, Len(a)),
               SubSeq(b, Len(a) \div 2 + 1, Len(a)),
               AddCarry(SubSeq(a, 1, Len(a) \div 2),
                        SubSeq(b, 1, Len(a) \div 2), carry))

AddRest(a, b, first) == Joined(first, AddCarry(a, b, first.carry))

\* a + b, most significant bit first
BitsAdd(a, b) ==
  LET n == IF Len(a) > Len(b) THEN Len(a) ELSE Len(b)
      s == AddCarry(Reverse(PadTo(a, n)), Reverse(PadTo(b, n)), 0)
  IN  NatToBits(s.carry) \o Reverse(s.bits)

\* a - b - borrow on sequences of equal length, least significant bit
\* first; carry is the borrow out
RECURSIVE SubBorrow(_, _, _), SubRest(_, _, _)
SubBorrow(a, b, borrow) ==
  IF Len(a) = 0 THEN [bits |-> << >>, carry |-> borrow]
  ELSE IF Len(a) = 1
  THEN [bits  |-> <<(a[1] - b[1] - borrow) % 2>>,
        carry |-> IF a[1] - b[1] - borrow < 0 THEN 1 ELSE 0]
  ELSE SubRest(SubSeq(a, Len(a) \div 2 + 1, Len(a)),
               SubSeq(b, Len(a) \div 2 + 1, Len(a)),
               SubBorrow(SubSeq(a, 1, Len(a) \div 2),
                         SubSeq(b, 1, Len(a) \div 2), borrow))

SubRest(a, b, first) == Joined(first, SubBorrow(a, b, first.carry))

\* a - b for a >= b, most significant bit first
BitsSub(a, b) ==
  LET n == IF Len(a) > Len(b) THEN Len(a) ELSE Len(b)
  IN  Reverse(SubBorrow(Reverse(PadTo(a, n)), Reverse(PadTo(b, n)), 0).bits)

\* a >= b
BitsGeq(a, b) ==
  LET n  == IF Len(a) > Len(b) THEN Len(a) ELSE Len(b)
      pa == PadTo(a, n)
      pb == PadTo(b, n)
  IN  IF \A i \in 1..n : pa[i] = pb[i] THEN TRUE
      ELSE pa[CHOOSE i \in 1..n :
                pa[i] # pb[i] /\ \A j \in 1..(i - 1) : pa[j] = pb[j]] = 1

FZero == [sign |-> 1, mant |-> << >>, exp |-> 0]

\* round sign * bits * 2^exp (plus a nonzero remainder below the last bit
\* when sticky) to the nearest float, ties to even
FRound(sign, bits, exp, sticky) ==
  LET b == StripZeros(bits)
      n == Len(b)
  IN  IF n = 0 THEN FZero
      ELSE IF n <= MantBits
      THEN [sign |-> sign, mant |-> b \o Zeros(MantBits - n),
            exp |-> exp - (MantBits - n)]
      ELSE LET keep  == SubSeq(b, 1, MantBits)
               guard == b[MantBits + 1]
               rest  == sticky \/ (\E i \in (MantBits + 2)..n : b[i] = 1)
               up    == guard = 1 /\ (rest \/ keep[MantBits] = 1)
               inc   == IF up THEN BitsAdd(keep, <<1>>) ELSE keep
           IN  IF Len(inc) > MantBits
               THEN [sign |-> sign, mant |-> SubSeq(inc, 1, MantBits),
                     exp |-> exp + (n - MantBits) + 1]
               ELSE [sign |-> sign, mant |-> inc,
                     exp |-> exp + (n - MantBits)]

\* float(k) for an integer k
FFromInt(k) ==
  FRound(IF k < 0 THEN -1 ELSE 1, NatToBits(IF k < 0 THEN -k ELSE k), 0, FALSE)

\* a / b for a natural a and a positive natural b (Python int / int)
FDivInts(a, b) ==
  LET n == NatToBits(a)
      g == DividendBits - Len(n)
      d == DivSmall(n \o Zeros(g), b)
  IN  FRound(1, d.quot, -g, d.rem # 0)

\* x / c for a float x and a positive natural c
FDivSmall(x, c) ==
  LET g == DividendBits - Len(x.mant)
      d == DivSmall(x.mant \o Zeros(g), c)
  IN  FRound(x.sign, d.quot, x.exp - g, d.rem # 0)

\* x * c for a float x and a natural c
FMulSmall(x, c) == FRound(x.sign, MulSmall(x.mant, c), x.exp, FALSE)

\* x + k for a float x and an integer k
FAddInt(x, k) ==
  IF x.mant = << >> THEN FFromInt(k)
  ELSE IF k = 0 THEN x
  ELSE LET ks == IF k < 0 THEN -1 ELSE 1
           ka == NatToBits(IF k < 0 THEN -k ELSE k)
           e  == IF x.exp < 0 THEN x.exp ELSE 0
           A  == x.mant \o Zeros(x.exp - e)
           B  == ka \o Zeros(-e)
       IN  IF ks = x.sign THEN FRound(ks, BitsAdd(A, B), e, FALSE)
           ELSE IF BitsGeq(A, B) THEN FRound(x.sign, BitsSub(A, B), e, FALSE)
           ELSE FRound(ks, BitsSub(B, A), e, FALSE)

\* Python int(x): truncation toward zero
FTrunc(x) ==
  IF x.mant = << >> THEN 0
  ELSE IF x.exp >= 0 THEN x.sign * BitsToNat(x.mant \o Zeros(x.exp))
  ELSE IF -x.exp >= MantBits THEN 0
  ELSE x.sign * BitsToNat(SubSeq(x.mant, 1, MantBits + x.exp))


(***************************************************************************)
(* const.py and the homeassistant constants imported by light.py           *)
(***************************************************************************)
CONF_ENTITY_ID == "entity_id"
CONF_OFFSET == "offset"
CONF_MIN_BRIGHTNESS == "min_brightness"
CONF_MAX_BRIGHTNESS == "max_brightness"
OFFSET_TYPE_ABSOLUTE == "absolute"
OFFSET_TYPE_RELATIVE == "relative"
DEFAULT_OFFSET == 0
DEFAULT_MIN_BRIGHTNESS == 1
DEFAULT_MAX_BRIGHTNESS == 100
ATTR_MASTER_BRIGHTNESS == "master_brightness"

ATTR_BRIGHTNESS == "brightness"
ATTR_COLOR_MODE == "color_mode"
ATTR_COLOR_TEMP == "color_temp"
ATTR_HS_COLOR == "hs_color"
ATTR_RGB_COLOR == "rgb_color"
ATTR_RGBW_COLOR == "rgbw_color"
ATTR_RGBWW_COLOR == "rgbww_color"
ATTR_SUPPORTED_COLOR_MODES == "supported_color_modes"
ATTR_SUPPORTED_FEATURES == "supported_features"
ATTR_TRANSITION == "transition"
ATTR_XY_COLOR == "xy_color"
ATTR_ENTITY_ID == "entity_id"
SERVICE_TURN_ON == "turn_on"
SERVICE_TURN_OFF == "turn_off"
STATE_ON == "on"
STATE_UNAVAILABLE == "unavailable"
STATE_UNKNOWN == "unknown"

\* the values of the ColorMode enumeration; ColorMode(x) raises ValueError
\* for any other x
ColorMode == {"unknown", "onoff", "brightness", "color_temp", "hs", "xy",
              "rgb", "rgbw", "rgbww", "white"}

COLOR_ATTRS == <<ATTR_HS_COLOR, ATTR_COLOR_TEMP, ATTR_RGB_COLOR,
                 ATTR_RGBW_COLOR, ATTR_RGBWW_COLOR, ATTR_XY_COLOR>>

\* Python None, and dictionaries as functions on their keys
None == "None"
EmptyDict == << >>
Get(d, k) == IF k \in DOMAIN d THEN d[k] ELSE None
GetOr(d, k, default) == IF k \in DOMAIN d THEN d[k] ELSE default
Range(f) == {f[x] : x \in DOMAIN f}

Max2(a, b) == IF a >= b THEN a ELSE b
Min2(a, b) == IF a <= b THEN a ELSE b

(***************************************************************************)
(* The brightness mapping.  entities_config, a dict in insertion order, is *)
(* the sequence of its entries, each carrying its key as entity_id.        *)
(***************************************************************************)

\* async_setup_entry: one entry per configured light, defaults filled in
EntitiesConfigFrom(lights_config) ==
  [i \in 1..Len(lights_config) |->
     [entity_id      |-> lights_config[i][CONF_ENTITY_ID],
      offset         |-> GetOr(lights_config[i], CONF_OFFSET, DEFAULT_OFFSET),
      min_brightness |-> GetOr(lights_config[i], CONF_MIN_BRIGHTNESS,
                               DEFAULT_MIN_BRIGHTNESS),
      max_brightness |-> GetOr(lights_config[i], CONF_MAX_BRIGHTNESS,
                               DEFAULT_MAX_BRIGHTNESS)]]

\* self._entities_config.get(entity_id, {})
ConfigOf(entities_config, entity_id) ==
  LET found == {i \in 1..Len(entities_config) :
                  entities_config[i].entity_id = entity_id}
  IN  IF found = {} THEN EmptyDict
      ELSE entities_config[CHOOSE i \in found : TRUE]

\* int((pct / 100) * 255)
PctToBrightness(pct) == FTrunc(FMulSmall(FDivInts(pct, 100), 255))

\* the unclamped target of the two offset modes
TargetBrightness(offset_type, offset, master_brightness) ==
  IF offset_type = OFFSET_TYPE_RELATIVE
  THEN LET multiplier == FDivInts(100 + offset, 100)
       IN  FTrunc(FMulSmall(multiplier, master_brightness))
  ELSE LET master_pct == FMulSmall(FDivInts(master_brightness, 255), 100)
           target_pct == FAddInt(master_pct, offset)
       IN  FTrunc(FMulSmall(FDivSmall(target_pct, 100), 255))

\* The offsets, percent bounds and master brightnesses the specifications
\* below draw from.  The two tables hold PctToBrightness and
\* TargetBrightness on them, computed once; Bound255 and Target look a
\* value up and compute it where the tables have none.
OffsetTypes == {OFFSET_TYPE_ABSOLUTE, OFFSET_TYPE_RELATIVE}

CalcOffsets == {-100, -43, -25, -23, -20, 0, 20, 25, 50, 100}

CalcBounds == {<<1, 100>>, <<10, 90>>, <<50, 50>>}

CalcMasters == {0, 1, 2, 10, 15, 64, 100, 128, 200, 255}

PctTable ==
  [pct \in {b[1] : b \in CalcBounds} \cup {b[2] : b \in CalcBounds} |->
     PctToBrightness(pct)]

TargetTable ==
  [offset_type \in OffsetTypes, offset \in CalcOffsets, m \in CalcMasters |->
     TargetBrightness(offset_type, offset, m)]

Bound255(pct) ==
  IF pct \in DOMAIN PctTable THEN PctTable[pct] ELSE PctToBrightness(pct)

Target(offset_type, offset, master_brightness) ==
  IF <<offset_type, offset, master_brightness>> \in DOMAIN TargetTable
  THEN TargetTable[offset_type, offset, master_brightness]
  ELSE TargetBrightness(offset_type, offset, master_brightness)

\* the mapping without its final clamp
calculate_without_clamp(g, entity_id, master_brightness) ==
  Target(g._offset_type,
         GetOr(ConfigOf(g._entities_config, entity_id),
               CONF_OFFSET, DEFAULT_OFFSET),
         master_brightness)

\* the mapping taking every group for an absolute-offset group
calculate_always_absolute(g, entity_id, master_brightness) ==
  LET config == ConfigOf(g._entities_config, entity_id)
  IN  Max2(Bound255(GetOr(config, CONF_MIN_BRIGHTNESS,
                          DEFAULT_MIN_BRIGHTNESS)),
           Min2(Bound255(GetOr(config, CONF_MAX_BRIGHTNESS,
                               DEFAULT_MAX_BRIGHTNESS)),
                Target(OFFSET_TYPE_ABSOLUTE,
                       GetOr(config, CONF_OFFSET, DEFAULT_OFFSET),
                       master_brightness)))

\* the mapping with the master percentage truncated to a whole percent
\* before the offset is applied
calculate_with_whole_percent(g, entity_id, master_brightness) ==
  LET config == ConfigOf(g._entities_config, entity_id)
      master_pct == FTrunc(FMulSmall(FDivInts(master_brightness, 255), 100))
      target_pct == master_pct + GetOr(config, CONF_OFFSET, DEFAULT_OFFSET)
      target == IF g._offset_type = OFFSET_TYPE_RELATIVE
                THEN Target(g._offset_type,
                            GetOr(config, CONF_OFFSET, DEFAULT_OFFSET),
                            master_brightness)
                ELSE IF target_pct <= 0 THEN 0
                ELSE PctToBrightness(target_pct)
  IN  Max2(Bound255(GetOr(config, CONF_MIN_BRIGHTNESS,
                          DEFAULT_MIN_BRIGHTNESS)),
           Min2(Bound255(GetOr(config, CONF_MAX_BRIGHTNESS,
                               DEFAULT_MAX_BRIGHTNESS)),
                target))

\* the mapping reading the group's own master brightness instead of its
\* argument
calculate_from_group_brightness(g, entity_id, master_brightness) ==
  LET config == ConfigOf(g._entities_config, entity_id)
  IN  Max2(Bound255(GetOr(config, CONF_MIN_BRIGHTNESS,
                          DEFAULT_MIN_BRIGHTNESS)),
           Min2(Bound255(GetOr(config, CONF_MAX_BRIGHTNESS,
                               DEFAULT_MAX_BRIGHTNESS)),
                Target(g._offset_type,
                       GetOr(config, CONF_OFFSET, DEFAULT_OFFSET),
                       g._master_brightness)))

\* the mapping with the two bounds applied in the other order: the minimum
\* first, the maximum last
calculate_clamping_minimum_first(g, entity_id, master_brightness) ==
  LET config == ConfigOf(g._entities_config, entity_id)
  IN  Min2(Bound255(GetOr(config, CONF_MAX_BRIGHTNESS,
                          DEFAULT_MAX_BRIGHTNESS)),
           Max2(Bound255(GetOr(config, CONF_MIN_BRIGHTNESS,
                               DEFAULT_MIN_BRIGHTNESS)),
                Target(g._offset_type,
                       GetOr(config, CONF_OFFSET, DEFAULT_OFFSET),
                       master_brightness)))

\* the mapping with the offset taken away from the master instead of added
calculate_with_offset_subtracted(g, entity_id, master_brightness) ==
  LET config == ConfigOf(g._entities_config, entity_id)
  IN  Max2(Bound255(GetOr(config, CONF_MIN_BRIGHTNESS,
                          DEFAULT_MIN_BRIGHTNESS)),
           Min2(Bound255(GetOr(config, CONF_MAX_BRIGHTNESS,
                               DEFAULT_MAX_BRIGHTNESS)),
                Target(g._offset_type,
                       0 - GetOr(config, CONF_OFFSET, DEFAULT_OFFSET),
                       master_brightness)))

\* OffsetLightGroup._calculate_light_brightness(entity_id, master_brightness)
_calculate_light_brightness(g, entity_id, master_brightness) ==
  LET config == ConfigOf(g._entities_config, entity_id)
      offset == GetOr(config, CONF_OFFSET, DEFAULT_OFFSET)
      min_brightness_pct == GetOr(config, CONF_MIN_BRIGHTNESS,
                                  DEFAULT_MIN_BRIGHTNESS)
      max_brightness_pct == GetOr(config, CONF_MAX_BRIGHTNESS,
                                  DEFAULT_MAX_BRIGHTNESS)
      min_brightness == Bound255(min_brightness_pct)
      max_brightness == Bound255(max_brightness_pct)
      target == Target(g._offset_type, offset, master_brightness)
  IN  Max2(min_brightness, Min2(max_brightness, target))

(***************************************************************************)
(* State.                                                                  *)
(*  self         the OffsetLightGroup object's fields                      *)
(*  added        async_added_to_hass has run (the listener is registered)  *)
(*  hass_states  hass.states: entity id -> [state, attributes]; the state  *)
(*               None stands for hass.states.get(entity_id) is None        *)
(*  tasks        the async_turn_on / async_turn_off coroutines in          *)
(*               progress, each suspended at its awaited service call      *)
(*  last         what the last step did: its kind, the service call it     *)
(*               issued and whether it called async_write_ha_state         *)
(*  calc         arguments and result of one call of                       *)
(*               _calculate_light_brightness                               *)
(*  restore_state  what async_get_last_state() returns: the group's state  *)
(*               as it was stored before the restart, state None for none  *)
(*  entries      hass.config_entries: the stored config entries            *)
(*  flows        the config flows and options flows in progress, each with *)
(*               the result of its last step                               *)
(*  yaml         a configuration, the YAML text config_to_yaml makes of it *)
(*               and what yaml_to_config returns for that text             *)
(***************************************************************************)
VARIABLES self, added, hass_states, tasks, last, calc, restore_state,
          entries, flows, yaml

\* the variables of the configuration flows
config_vars == <<entries, flows, yaml>>

vars == <<self, added, hass_states, tasks, last, calc, restore_state,
          config_vars>>

\* the number of service calls to the group that may be in progress at once
MaxTasks == 2

Tasks == 1..MaxTasks

NoState == [state |-> None, attributes |-> EmptyDict]

\* list(self._entities_config.keys())
EntityIds(g) == [i \in 1..Len(g._entities_config) |->
                   g._entities_config[i].entity_id]

\* OffsetLightGroup.__init__; a feature bitset is the set of its bits
NewGroup(entities_config, offset_type) ==
  [_entities_config |-> entities_config,
   _offset_type |-> offset_type,
   _is_on |-> FALSE,
   _master_brightness |-> 128,
   _color_mode |-> None,
   _hs_color |-> None,
   _color_temp |-> None,
   _rgb_color |-> None,
   _rgbw_color |-> None,
   _rgbww_color |-> None,
   _xy_color |-> None,
   _supported_color_modes |-> {},
   _supported_features |-> {},
   _applying_state |-> FALSE]

\* the color mode and the six color payload fields of the group
ColorState(g) ==
  [color_mode |-> g._color_mode, hs_color |-> g._hs_color,
   color_temp |-> g._color_temp, rgb_color |-> g._rgb_color,
   rgbw_color |-> g._rgbw_color, rgbww_color |-> g._rgbww_color,
   xy_color |-> g._xy_color]

\* the test that skips only the members that are absent or unavailable
SeenUnlessUnavailable(states, e) ==
  states[e].state \notin {None, STATE_UNAVAILABLE}

\* "state is None or state.state in (STATE_UNAVAILABLE, STATE_UNKNOWN)"
\* does not hold of the member
Seen(states, e) ==
  states[e].state \notin {None, STATE_UNAVAILABLE, STATE_UNKNOWN}

\* on_states when the loop over the members stops after the first one
on_states_of_first_member(g, states) ==
  SelectSeq(SubSeq(EntityIds(g), 1, 1),
            LAMBDA e : Seen(states, e) /\ states[e].state = STATE_ON)

\* on_states collected from the last configured member to the first
on_states_in_reverse_order(g, states) ==
  LET n == Len(g._entities_config)
  IN  SelectSeq([i \in 1..n |-> EntityIds(g)[n + 1 - i]],
                LAMBDA e : Seen(states, e) /\ states[e].state = STATE_ON)

\* on_states: the members that are seen and on, in configured order
on_states(g, states) ==
  SelectSeq(EntityIds(g),
            LAMBDA e : Seen(states, e) /\ states[e].state = STATE_ON)

\* color_modes collected from the members that are on only
color_modes_of_on_members(g, states) ==
  UNION {IF ATTR_SUPPORTED_COLOR_MODES \in DOMAIN states[e].attributes
         THEN Range(states[e].attributes[ATTR_SUPPORTED_COLOR_MODES])
                \cap ColorMode
         ELSE {} : e \in Range(on_states(g, states))}

\* color_modes: the recognized supported color modes of the seen members
color_modes(g, states) ==
  UNION {IF ATTR_SUPPORTED_COLOR_MODES \in DOMAIN states[e].attributes
         THEN Range(states[e].attributes[ATTR_SUPPORTED_COLOR_MODES])
                \cap ColorMode
         ELSE {} : e \in {x \in Range(EntityIds(g)) : Seen(states, x)}}

\* features: the union of the seen members' supported features
features(g, states) ==
  UNION {IF ATTR_SUPPORTED_FEATURES \in DOMAIN states[e].attributes
         THEN states[e].attributes[ATTR_SUPPORTED_FEATURES]
         ELSE {} : e \in {x \in Range(EntityIds(g)) : Seen(states, x)}}

\* ColorMode(cm) under "if cm := ...: try ... except ValueError: None"
ToColorMode(cm) == IF cm \in ColorMode THEN cm ELSE None

\* the copy from the first on member that keeps a group field whose
\* attribute the member does not report
copy_reported_color_only(g, first_on) ==
  [g EXCEPT
     !._color_mode = ToColorMode(Get(first_on, ATTR_COLOR_MODE)),
     !._hs_color = GetOr(first_on, ATTR_HS_COLOR, g._hs_color),
     !._color_temp = GetOr(first_on, ATTR_COLOR_TEMP, g._color_temp),
     !._rgb_color = GetOr(first_on, ATTR_RGB_COLOR, g._rgb_color),
     !._rgbw_color = GetOr(first_on, ATTR_RGBW_COLOR, g._rgbw_color),
     !._rgbww_color = GetOr(first_on, ATTR_RGBWW_COLOR, g._rgbww_color),
     !._xy_color = GetOr(first_on, ATTR_XY_COLOR, g._xy_color)]

\* the color mode and payload copied from the attributes of the first on
\* member
copy_color_from(g, first_on) ==
  [g EXCEPT
     !._color_mode = ToColorMode(Get(first_on, ATTR_COLOR_MODE)),
     !._hs_color = Get(first_on, ATTR_HS_COLOR),
     !._color_temp = Get(first_on, ATTR_COLOR_TEMP),
     !._rgb_color = Get(first_on, ATTR_RGB_COLOR),
     !._rgbw_color = Get(first_on, ATTR_RGBW_COLOR),
     !._rgbww_color = Get(first_on, ATTR_RGBWW_COLOR),
     !._xy_color = Get(first_on, ATTR_XY_COLOR)]

\* the pass of a group that follows the brightness of its first on member
update_following_member_brightness(g, states) ==
  LET on == on_states(g, states)
      g1 == [g EXCEPT !._is_on = Len(on) > 0,
                      !._supported_color_modes =
                         IF color_modes(g, states) # {}
                         THEN color_modes(g, states) ELSE {"brightness"},
                      !._supported_features = features(g, states)]
  IN  IF Len(on) > 0
      THEN LET first_on == states[on[1]].attributes
               g2 == copy_color_from(g1, first_on)
           IN  IF ATTR_BRIGHTNESS \in DOMAIN first_on
               THEN [g2 EXCEPT !._master_brightness = first_on[ATTR_BRIGHTNESS]]
               ELSE g2
      ELSE g1

\* the pass that resets the color state when no member is on
update_clearing_color_when_off(g, states) ==
  LET on == on_states(g, states)
      g1 == [g EXCEPT !._is_on = Len(on) > 0,
                      !._supported_color_modes =
                         IF color_modes(g, states) # {}
                         THEN color_modes(g, states) ELSE {"brightness"},
                      !._supported_features = features(g, states)]
  IN  IF Len(on) > 0
      THEN copy_color_from(g1, states[on[1]].attributes)
      ELSE copy_color_from(g1, EmptyDict)

\* OffsetLightGroup._update_state_from_members
_update_state_from_members(g, states) ==
  LET on == on_states(g, states)
      g1 == [g EXCEPT !._is_on = Len(on) > 0,
                      !._supported_color_modes =
                         IF color_modes(g, states) # {}
                         THEN color_modes(g, states) ELSE {"brightness"},
                      !._supported_features = features(g, states)]
  IN  IF Len(on) > 0
      THEN copy_color_from(g1, states[on[1]].attributes)
      ELSE g1

\* the store that checks the attributes in the order of COLOR_ATTRS, so
\* that xy_color is checked last
store_color_in_forwarding_order(g, kwargs) ==
  LET mode == [hs_color |-> "hs", color_temp |-> "color_temp",
               rgb_color |-> "rgb", rgbw_color |-> "rgbw",
               rgbww_color |-> "rgbww", xy_color |-> "xy"]
      given == SelectSeq(COLOR_ATTRS, LAMBDA attr : attr \in DOMAIN kwargs)
  IN  [g EXCEPT
         !._hs_color = GetOr(kwargs, ATTR_HS_COLOR, @),
         !._color_temp = GetOr(kwargs, ATTR_COLOR_TEMP, @),
         !._rgb_color = GetOr(kwargs, ATTR_RGB_COLOR, @),
         !._rgbw_color = GetOr(kwargs, ATTR_RGBW_COLOR, @),
         !._rgbww_color = GetOr(kwargs, ATTR_RGBWW_COLOR, @),
         !._xy_color = GetOr(kwargs, ATTR_XY_COLOR, @),
         !._color_mode = IF Len(given) = 0 THEN @
                         ELSE mode[given[Len(given)]]]

\* OffsetLightGroup._store_color_from_kwargs: six ifs in this order
_store_color_from_kwargs(g, kwargs) ==
  LET s1 == IF ATTR_HS_COLOR \in DOMAIN kwargs
            THEN [g EXCEPT !._hs_color = kwargs[ATTR_HS_COLOR],
                           !._color_mode = "hs"]
            ELSE g
      s2 == IF ATTR_RGB_COLOR \in DOMAIN kwargs
            THEN [s1 EXCEPT !._rgb_color = kwargs[ATTR_RGB_COLOR],
                            !._color_mode = "rgb"]
            ELSE s1
      s3 == IF ATTR_RGBW_COLOR \in DOMAIN kwargs
            THEN [s2 EXCEPT !._rgbw_color = kwargs[ATTR_RGBW_COLOR],
                            !._color_mode = "rgbw"]
            ELSE s2
      s4 == IF ATTR_RGBWW_COLOR \in DOMAIN kwargs
            THEN [s3 EXCEPT !._rgbww_color = kwargs[ATTR_RGBWW_COLOR],
                            !._color_mode = "rgbww"]
            ELSE s3
      s5 == IF ATTR_XY_COLOR \in DOMAIN kwargs
            THEN [s4 EXCEPT !._xy_color = kwargs[ATTR_XY_COLOR],
                            !._color_mode = "xy"]
            ELSE s4
  IN  IF ATTR_COLOR_TEMP \in DOMAIN kwargs
      THEN [s5 EXCEPT !._color_temp = kwargs[ATTR_COLOR_TEMP],
                      !._color_mode = "color_temp"]
      ELSE s5

\* the supported_color_modes property
supported_color_modes(g) ==
  IF g._supported_color_modes # {} THEN g._supported_color_modes
  ELSE {"brightness"}

\* the supported_features property
supported_features(g) == g._supported_features

(***************************************************************************)
(* The operations.  An await of hass.services.async_call(blocking=True)    *)
(* suspends the coroutine: other coroutines and the listener run until the *)
(* call returns or raises.                                                 *)
(***************************************************************************)

\* service_data of async_turn_on for entity_id
TurnOnServiceData(g, entity_id, kwargs) ==
  LET keys == {ATTR_ENTITY_ID, ATTR_BRIGHTNESS}
                \cup (Range(COLOR_ATTRS) \cap DOMAIN kwargs)
                \cup ({ATTR_TRANSITION} \cap DOMAIN kwargs)
  IN  [k \in keys |->
         IF k = ATTR_ENTITY_ID THEN entity_id
         ELSE IF k = ATTR_BRIGHTNESS
         THEN _calculate_light_brightness(g, entity_id, g._master_brightness)
         ELSE kwargs[k]]

\* service_data of async_turn_off
TurnOffServiceData(g, kwargs) ==
  [k \in {ATTR_ENTITY_ID} \cup ({ATTR_TRANSITION} \cap DOMAIN kwargs) |->
     IF k = ATTR_ENTITY_ID THEN EntityIds(g) ELSE kwargs[k]]

\* a coroutine slot not in use
Idle == [pc |-> "idle", kwargs |-> EmptyDict, i |-> 0]

\* a new coroutine takes the first slot not in use
FreeSlot(t) ==
  /\ tasks[t].pc = "idle"
  /\ \A u \in Tasks : u < t => tasks[u].pc # "idle"

NoCall == [service |-> None, data |-> EmptyDict]

Call(service, data) == [service |-> service, data |-> data]

Did(kind, call, wrote) == [kind |-> kind, call |-> call, wrote |-> wrote]

\* the restore that prefers the standard brightness attribute
restore_standard_brightness_first(g, last_state) ==
  IF last_state.state = None THEN g
  ELSE LET a  == last_state.attributes
           g1 == [g EXCEPT !._is_on = (last_state.state = STATE_ON)]
       IN  IF ATTR_BRIGHTNESS \in DOMAIN a
           THEN [g1 EXCEPT !._master_brightness = a[ATTR_BRIGHTNESS]]
           ELSE IF ATTR_MASTER_BRIGHTNESS \in DOMAIN a
           THEN [g1 EXCEPT !._master_brightness = a[ATTR_MASTER_BRIGHTNESS]]
           ELSE g1

\* async_added_to_hass: the restore from last_state.  An attribute whose
\* value is None is left out of attributes: attributes.get(key) is None
\* either way.
RestoreState(g, last_state) ==
  IF last_state.state = None THEN g
  ELSE LET a  == last_state.attributes
           g1 == [g EXCEPT !._is_on = (last_state.state = STATE_ON)]
       IN  IF ATTR_MASTER_BRIGHTNESS \in DOMAIN a
           THEN [g1 EXCEPT !._master_brightness = a[ATTR_MASTER_BRIGHTNESS]]
           ELSE IF ATTR_BRIGHTNESS \in DOMAIN a
           THEN [g1 EXCEPT !._master_brightness = a[ATTR_BRIGHTNESS]]
           ELSE g1

\* async_added_to_hass without its initial update: the restored values stay
added_without_initial_update ==
  /\ ~added
  /\ added' = TRUE
  /\ self' = RestoreState(self, restore_state)
  /\ last' = Did("added", NoCall, FALSE)
  /\ UNCHANGED <<hass_states, tasks, calc, restore_state, config_vars>>

\* async_added_to_hass: restore, register the listener, initial update
async_added_to_hass ==
  /\ ~added
  /\ added' = TRUE
  /\ self' = _update_state_from_members(RestoreState(self, restore_state),
                                        hass_states)
  /\ last' = Did("added", NoCall, FALSE)
  /\ UNCHANGED <<hass_states, tasks, calc, restore_state, config_vars>>

\* the listener running the pass whatever the guard flag says
listener_without_guard(entity_id, new_state) ==
  /\ added
  /\ new_state # hass_states[entity_id]
  /\ hass_states' = [hass_states EXCEPT ![entity_id] = new_state]
  /\ self' = _update_state_from_members(self, hass_states')
  /\ last' = Did("resync", NoCall, TRUE)
  /\ UNCHANGED <<added, tasks, calc, restore_state, config_vars>>

\* A member's state changes to new_state and the state-change event reaches
\* async_state_changed_listener.
async_state_changed_listener(entity_id, new_state) ==
  /\ added
  /\ new_state # hass_states[entity_id]
  /\ hass_states' = [hass_states EXCEPT ![entity_id] = new_state]
  /\ IF self._applying_state
     THEN /\ self' = self
          /\ last' = Did("ignored", NoCall, FALSE)
     ELSE /\ self' = _update_state_from_members(self, hass_states')
          /\ last' = Did("resync", NoCall, TRUE)
  /\ UNCHANGED <<added, tasks, calc, restore_state, config_vars>>

\* the loop of a turn-on that marks the group on with its first command
TurnOnMarkingOnAtOnce(g, t, kwargs, i, kind) ==
  IF i <= Len(g._entities_config)
  THEN /\ self' = [g EXCEPT !._is_on = TRUE]
       /\ tasks' = [tasks EXCEPT ![t] =
                      [pc |-> "turn_on", kwargs |-> kwargs, i |-> i]]
       /\ last' = Did(kind,
                      Call(SERVICE_TURN_ON,
                           TurnOnServiceData(g, EntityIds(g)[i], kwargs)),
                      FALSE)
  ELSE /\ self' = [g EXCEPT !._is_on = TRUE, !._applying_state = FALSE]
       /\ tasks' = [tasks EXCEPT ![t] = Idle]
       /\ last' = Did("turn_on_done", NoCall, TRUE)

\* The for loop of async_turn_on arriving at its i-th member in group state
\* g: the member's service call is issued and awaited, or the loop is over,
\* the group is on and its state is written.
TurnOnFrom(g, t, kwargs, i, kind) ==
  IF i <= Len(g._entities_config)
  THEN /\ self' = g
       /\ tasks' = [tasks EXCEPT ![t] =
                      [pc |-> "turn_on", kwargs |-> kwargs, i |-> i]]
       /\ last' = Did(kind,
                      Call(SERVICE_TURN_ON,
                           TurnOnServiceData(g, EntityIds(g)[i], kwargs)),
                      FALSE)
  ELSE /\ self' = [g EXCEPT !._is_on = TRUE, !._applying_state = FALSE]
       /\ tasks' = [tasks EXCEPT ![t] = Idle]
       /\ last' = Did("turn_on_done", NoCall, TRUE)

\* async_turn_on(**kwargs) up to its first await
async_turn_on(t, kwargs) ==
  /\ added
  /\ FreeSlot(t)
  /\ LET g1 == [self EXCEPT !._applying_state = TRUE]
         g2 == IF ATTR_BRIGHTNESS \in DOMAIN kwargs
               THEN [g1 EXCEPT !._master_brightness = kwargs[ATTR_BRIGHTNESS]]
               ELSE g1
         g3 == _store_color_from_kwargs(g2, kwargs)
     IN  TurnOnFrom(g3, t, kwargs, 1, "turn_on")
  /\ UNCHANGED <<added, hass_states, calc, restore_state, config_vars>>

\* the awaited light.turn_on call returns: the loop goes on
turn_on_call_returns(t) ==
  /\ tasks[t].pc = "turn_on"
  /\ TurnOnFrom(self, t, tasks[t].kwargs, tasks[t].i + 1, "turn_on_next")
  /\ UNCHANGED <<added, hass_states, calc, restore_state, config_vars>>

\* a failing light.turn_on call in a coroutine without the finally clause
turn_on_call_raises_without_finally(t) ==
  /\ tasks[t].pc = "turn_on"
  /\ self' = self
  /\ tasks' = [tasks EXCEPT ![t] = Idle]
  /\ last' = Did("turn_on_failed", NoCall, FALSE)
  /\ UNCHANGED <<added, hass_states, calc, restore_state, config_vars>>

\* a failing light.turn_on call after which the loop goes on to the next
\* member
turn_on_call_raises_and_goes_on(t) ==
  /\ tasks[t].pc = "turn_on"
  /\ TurnOnFrom(self, t, tasks[t].kwargs, tasks[t].i + 1, "turn_on_failed")
  /\ UNCHANGED <<added, hass_states, calc, restore_state, config_vars>>

\* a failing light.turn_on call after which the group forgets the
\* brightness and the color the turn-on stored
turn_on_call_raises_rolling_back(t) ==
  /\ tasks[t].pc = "turn_on"
  /\ self' = [self EXCEPT !._applying_state = FALSE,
                          !._master_brightness = 128,
                          !._color_mode = None,
                          !._hs_color = None]
  /\ tasks' = [tasks EXCEPT ![t] = Idle]
  /\ last' = Did("turn_on_failed", NoCall, FALSE)
  /\ UNCHANGED <<added, hass_states, calc, restore_state, config_vars>>

\* the awaited light.turn_on call raises: only the finally clause runs
turn_on_call_raises(t) ==
  /\ tasks[t].pc = "turn_on"
  /\ self' = [self EXCEPT !._applying_state = FALSE]
  /\ tasks' = [tasks EXCEPT ![t] = Idle]
  /\ last' = Did("turn_on_failed", NoCall, FALSE)
  /\ UNCHANGED <<added, hass_states, calc, restore_state, config_vars>>

\* a turn-off that also forgets the master brightness
async_turn_off_resetting_brightness(t, kwargs) ==
  /\ added
  /\ FreeSlot(t)
  /\ self' = [self EXCEPT !._applying_state = TRUE, !._master_brightness = 0]
  /\ tasks' = [tasks EXCEPT ![t] =
                 [pc |-> "turn_off", kwargs |-> kwargs, i |-> 0]]
  /\ last' = Did("turn_off",
                 Call(SERVICE_TURN_OFF, TurnOffServiceData(self, kwargs)),
                 FALSE)
  /\ UNCHANGED <<added, hass_states, calc, restore_state, config_vars>>

\* a turn-off that marks the group off before its command is awaited
async_turn_off_marking_off_at_once(t, kwargs) ==
  /\ added
  /\ FreeSlot(t)
  /\ self' = [self EXCEPT !._applying_state = TRUE, !._is_on = FALSE]
  /\ tasks' = [tasks EXCEPT ![t] =
                 [pc |-> "turn_off", kwargs |-> kwargs, i |-> 0]]
  /\ last' = Did("turn_off",
                 Call(SERVICE_TURN_OFF, TurnOffServiceData(self, kwargs)),
                 FALSE)
  /\ UNCHANGED <<added, hass_states, calc, restore_state, config_vars>>

\* async_turn_off(**kwargs) up to its await
async_turn_off(t, kwargs) ==
  /\ added
  /\ FreeSlot(t)
  /\ self' = [self EXCEPT !._applying_state = TRUE]
  /\ tasks' = [tasks EXCEPT ![t] =
                 [pc |-> "turn_off", kwargs |-> kwargs, i |-> 0]]
  /\ last' = Did("turn_off",
                 Call(SERVICE_TURN_OFF, TurnOffServiceData(self, kwargs)),
                 FALSE)
  /\ UNCHANGED <<added, hass_states, calc, restore_state, config_vars>>

\* a turn-off that, when its call returns, runs the pass it held back
turn_off_call_returns_then_resync(t) ==
  /\ tasks[t].pc = "turn_off"
  /\ self' = _update_state_from_members(
               [self EXCEPT !._is_on = FALSE, !._applying_state = FALSE],
               hass_states)
  /\ tasks' = [tasks EXCEPT ![t] = Idle]
  /\ last' = Did("turn_off_done", NoCall, TRUE)
  /\ UNCHANGED <<added, hass_states, calc, restore_state, config_vars>>

\* the awaited light.turn_off call returns
turn_off_call_returns(t) ==
  /\ tasks[t].pc = "turn_off"
  /\ self' = [self EXCEPT !._is_on = FALSE, !._applying_state = FALSE]
  /\ tasks' = [tasks EXCEPT ![t] = Idle]
  /\ last' = Did("turn_off_done", NoCall, TRUE)
  /\ UNCHANGED <<added, hass_states, calc, restore_state, config_vars>>

\* the awaited light.turn_off call raises: only the finally clause runs
turn_off_call_raises(t) ==
  /\ tasks[t].pc = "turn_off"
  /\ self' = [self EXCEPT !._applying_state = FALSE]
  /\ tasks' = [tasks EXCEPT ![t] = Idle]
  /\ last' = Did("turn_off_failed", NoCall, FALSE)
  /\ UNCHANGED <<added, hass_states, calc, restore_state, config_vars>>

\* _calculate_light_brightness is called with these arguments
calculate_called(entity_id, master_brightness) ==
  /\ calc.stage # "called"
  /\ calc' = [stage |-> "called", entity_id |-> entity_id,
              master_brightness |-> master_brightness, result |-> 0]
  /\ UNCHANGED <<self, added, hass_states, tasks, last, restore_state,
               config_vars>>

\* one call of _calculate_light_brightness with the arguments in calc
calculate ==
  /\ calc.stage = "called"
  /\ calc' = [calc EXCEPT
                !.stage = "returned",
                !.result = _calculate_light_brightness(
                             self, calc.entity_id, calc.master_brightness)]
  /\ UNCHANGED <<self, added, hass_states, tasks, last, restore_state,
               config_vars>>

(***************************************************************************)
(* config_flow.py: text.  A Python str is a string; its characters are     *)
(* read with SubSeq.                                                       *)
(***************************************************************************)
CharAt(s, i) == SubSeq(s, i, i)

\* s.startswith(prefix)
StartsWith(s, prefix) ==
  Len(s) >= Len(prefix) /\ SubSeq(s, 1, Len(prefix)) = prefix

\* sub in s
Contains(s, sub) ==
  \E i \in 1..(Len(s) - Len(sub) + 1) : SubSeq(s, i, i + Len(sub) - 1) = sub

UpperCase == "ABCDEFGHIJKLMNOPQRSTUVWXYZ"
LowerCase == "abcdefghijklmnopqrstuvwxyz"

LowerChar(c) ==
  IF \E i \in 1..Len(UpperCase) : CharAt(UpperCase, i) = c
  THEN CharAt(LowerCase, CHOOSE i \in 1..Len(UpperCase) :
                           CharAt(UpperCase, i) = c)
  ELSE c

RECURSIVE Lower(_)
\* s.lower()
Lower(s) ==
  IF Len(s) = 0 THEN ""
  ELSE LowerChar(CharAt(s, 1)) \o Lower(SubSeq(s, 2, Len(s)))

Digits == "0123456789"

IsDigit(c) == \E d \in 1..Len(Digits) : CharAt(Digits, d) = c

DigitValue(c) == (CHOOSE d \in 1..Len(Digits) : CharAt(Digits, d) = c) - 1

AllDigits(s) == Len(s) > 0 /\ \A i \in 1..Len(s) : IsDigit(CharAt(s, i))

RECURSIVE NatToText(_)
NatToText(n) ==
  IF n < 10 THEN CharAt(Digits, n + 1)
  ELSE NatToText(n \div 10) \o CharAt(Digits, (n % 10) + 1)

\* f"{n}" of an int
IntToText(n) == IF n < 0 THEN "-" \o NatToText(-n) ELSE NatToText(n)

RECURSIVE TextToNat(_, _)
\* the digits of s read in the given base
TextToNat(s, base) ==
  IF Len(s) = 0 THEN 0
  ELSE TextToNat(SubSeq(s, 1, Len(s) - 1), base) * base
         + DigitValue(CharAt(s, Len(s)))

RECURSIVE Strip(_)
\* s without the blanks at its ends
Strip(s) ==
  IF Len(s) > 0 /\ CharAt(s, 1) = " " THEN Strip(SubSeq(s, 2, Len(s)))
  ELSE IF Len(s) > 0 /\ CharAt(s, Len(s)) = " "
  THEN Strip(SubSeq(s, 1, Len(s) - 1))
  ELSE s

(***************************************************************************)
(* Python values as yaml.safe_load builds them and as the config entries   *)
(* store them: a value carries its type; a dict has its keys and, in       *)
(* items, the values in the same order; a list has its elements in items.  *)
(***************************************************************************)
Value(type, s, n, keys, items) ==
  [type |-> type, s |-> s, n |-> n, keys |-> keys, items |-> items]

PyStr(s) == Value("str", s, 0, << >>, << >>)
PyInt(n) == Value("int", "", n, << >>, << >>)
PyFloat(s) == Value("float", s, 0, << >>, << >>)
PyBool(b) == Value("bool", "", IF b THEN 1 ELSE 0, << >>, << >>)
PyNone == Value("NoneType", "", 0, << >>, << >>)
PyList(items) == Value("list", "", 0, << >>, items)
PyDict(keys, items) == Value("dict", "", 0, keys, items)

\* key in d
HasKey(d, key) == \E i \in 1..Len(d.keys) : d.keys[i] = key

\* d[key]
Item(d, key) == d.items[CHOOSE i \in 1..Len(d.keys) : d.keys[i] = key]

\* d.get(key, default)
ItemOr(d, key, default) == IF HasKey(d, key) THEN Item(d, key) ELSE default

(***************************************************************************)
(* YAML text.  A document is the tree of its block structure: a mapping    *)
(* with its keys and, in items, their nodes; a sequence with its entries   *)
(* in items; a plain scalar with the text written for it.  yaml.safe_load  *)
(* resolves each plain scalar by the YAML 1.1 rules.                       *)
(***************************************************************************)
Scalar(s) == Value("scalar", s, 0, << >>, << >>)
Mapping(keys, items) == Value("mapping", "", 0, keys, items)
Sequence(items) == Value("sequence", "", 0, << >>, items)

\* the text of a plain scalar up to a comment
RECURSIVE CutComment(_)
CutComment(s) ==
  IF ~Contains(s, " #") THEN s
  ELSE CutComment(SubSeq(s, 1, Len(s) - 1))

\* the scalar as the parser reads it
PlainText(s) == Strip(CutComment(Strip(s)))

\* "mapping values are not allowed here": a plain scalar in a block mapping
\* holding ": " or ending with ":"
ScalarIsInvalid(s) ==
  LET t == PlainText(s)
  IN  Contains(t, ": ") \/ (Len(t) > 0 /\ CharAt(t, Len(t)) = ":")

YamlNull == {"", "~", "null", "Null", "NULL"}
YamlTrue == {"yes", "Yes", "YES", "true", "True", "TRUE", "on", "On", "ON"}
YamlFalse == {"no", "No", "NO", "false", "False", "FALSE", "off", "Off",
              "OFF"}

\* s without a leading sign
Unsigned(s) ==
  IF Len(s) > 0 /\ CharAt(s, 1) \in {"-", "+"} THEN SubSeq(s, 2, Len(s))
  ELSE s

Signed(s, n) == IF Len(s) > 0 /\ CharAt(s, 1) = "-" THEN -n ELSE n

\* [-+]?(0|[1-9][0-9]*)
IsDecimal(s) ==
  LET u == Unsigned(s)
  IN  AllDigits(u) /\ (u = "0" \/ CharAt(u, 1) # "0")

\* [-+]?0[0-7]+
IsOctal(s) ==
  LET u == Unsigned(s)
  IN  /\ Len(u) >= 2
      /\ CharAt(u, 1) = "0"
      /\ \A i \in 2..Len(u) : IsDigit(CharAt(u, i)) /\ CharAt(u, i) \notin {"8", "9"}

\* [-+]?[0-9]+\.[0-9]*
IsFloat(s) ==
  LET u == Unsigned(s)
  IN  \E i \in 2..Len(u) :
        /\ CharAt(u, i) = "."
        /\ AllDigits(SubSeq(u, 1, i - 1))
        /\ \A j \in (i + 1)..Len(u) : IsDigit(CharAt(u, j))

\* the value of a plain scalar
ResolveScalar(s) ==
  LET t == PlainText(s)
  IN  IF t \in YamlNull THEN PyNone
      ELSE IF t \in YamlTrue THEN PyBool(TRUE)
      ELSE IF t \in YamlFalse THEN PyBool(FALSE)
      ELSE IF IsDecimal(t) THEN PyInt(Signed(t, TextToNat(Unsigned(t), 10)))
      ELSE IF IsOctal(t) THEN PyInt(Signed(t, TextToNat(Unsigned(t), 8)))
      ELSE IF IsFloat(t) THEN PyFloat(t)
      ELSE PyStr(t)

RECURSIVE DocIsInvalid(_)
\* the document makes the parser raise yaml.YAMLError
DocIsInvalid(node) ==
  \/ node.type = "invalid"
  \/ node.type = "scalar" /\ ScalarIsInvalid(node.s)
  \/ \E i \in 1..Len(node.items) : DocIsInvalid(node.items[i])

RECURSIVE Construct(_)
\* the Python value of a node
Construct(node) ==
  IF node.type = "scalar" THEN ResolveScalar(node.s)
  ELSE IF node.type = "sequence"
  THEN PyList([i \in 1..Len(node.items) |-> Construct(node.items[i])])
  ELSE PyDict(node.keys, [i \in 1..Len(node.items) |-> Construct(node.items[i])])

\* yaml.safe_load(yaml_string); the type "YAMLError" stands for the raise
safe_load(yaml_string) ==
  IF DocIsInvalid(yaml_string) THEN Value("YAMLError", "", 0, << >>, << >>)
  ELSE Construct(yaml_string)

(***************************************************************************)
(* config_flow.py: the structured configuration and its YAML form.         *)
(***************************************************************************)
CONF_NAME == "name"
CONF_LIGHTS == "lights"
CONF_OFFSET_TYPE == "offset_type"
DEFAULT_OFFSET_TYPE == OFFSET_TYPE_ABSOLUTE

\* a == b of two Python values: dicts are equal whatever the order of
\* their keys
RECURSIVE PyEq(_, _)
PyEq(a, b) ==
  /\ a.type = b.type
  /\ a.s = b.s
  /\ a.n = b.n
  /\ Len(a.items) = Len(b.items)
  /\ IF a.type = "dict"
     THEN /\ Range(a.keys) = Range(b.keys)
          /\ \A i \in 1..Len(a.keys) :
               PyEq(a.items[i], Item(b, a.keys[i]))
     ELSE \A i \in 1..Len(a.items) : PyEq(a.items[i], b.items[i])

\* f"{v}"
Format(v) ==
  IF v.type = "str" THEN v.s
  ELSE IF v.type = "int" THEN IntToText(v.n)
  ELSE IF v.type = "float" THEN v.s
  ELSE IF v.type = "bool" THEN (IF v.n = 1 THEN "True" ELSE "False")
  ELSE IF v.type = "NoneType" THEN "None"
  ELSE "[...]"

\* int(v) is defined: v is a number, or a str that reads as an integer
IntDefined(v) ==
  \/ v.type \in {"int", "bool", "float"}
  \/ v.type = "str" /\ AllDigits(Unsigned(Strip(v.s)))

\* int(v), a float being truncated toward zero
ToInt(v) ==
  IF v.type \in {"int", "bool"} THEN v.n
  ELSE IF v.type = "float"
  THEN LET u == Unsigned(v.s)
           dot == CHOOSE i \in 1..Len(u) : CharAt(u, i) = "."
       IN  Signed(v.s, TextToNat(SubSeq(u, 1, dot - 1), 10))
  ELSE Signed(Strip(v.s), TextToNat(Unsigned(Strip(v.s)), 10))

\* the three numbers config_to_yaml writes for a light
LightNumbers(light) ==
  <<ItemOr(light, CONF_OFFSET, PyInt(DEFAULT_OFFSET)),
    ItemOr(light, CONF_MIN_BRIGHTNESS, PyInt(DEFAULT_MIN_BRIGHTNESS)),
    ItemOr(light, CONF_MAX_BRIGHTNESS, PyInt(DEFAULT_MAX_BRIGHTNESS))>>

\* the four lines config_to_yaml writes for a light
LightToYaml(light) ==
  LET numbers == LightNumbers(light)
  IN  Mapping(<<"entity_id", "offset", "min_brightness", "max_brightness">>,
              <<Scalar(Format(ItemOr(light, CONF_ENTITY_ID, PyStr("")))),
                Scalar(IntToText(ToInt(numbers[1]))),
                Scalar(IntToText(ToInt(numbers[2]))),
                Scalar(IntToText(ToInt(numbers[3])))>>)

\* config_to_yaml(config); the type "raised" stands for the ValueError or
\* TypeError of an int() that is not defined.  "lights:" with no entry
\* after it is a key with an empty scalar.
config_to_yaml(config) ==
  LET lights == ItemOr(config, CONF_LIGHTS, PyList(<< >>)).items
  IN  IF \E i \in 1..Len(lights), k \in 1..3 :
           ~IntDefined(LightNumbers(lights[i])[k])
      THEN Value("raised", "", 0, << >>, << >>)
      ELSE Mapping(
             <<"name", "offset_type", "lights">>,
             <<Scalar(Format(ItemOr(config, CONF_NAME, PyStr("")))),
               Scalar(Format(ItemOr(config, CONF_OFFSET_TYPE,
                                    PyStr(DEFAULT_OFFSET_TYPE)))),
               IF Len(lights) = 0 THEN Scalar("")
               ELSE Sequence([i \in 1..Len(lights) |->
                                LightToYaml(lights[i])])>>)

\* what a function returning (config, error) does: it returns the pair, or
\* it raises
Returns(config, error) == [config |-> config, error |-> error,
                           raised |-> FALSE]
Raises == [config |-> PyNone, error |-> None, raised |-> TRUE]

\* _validate_light_entry(light, index); entity_id.startswith raises
\* AttributeError when entity_id is not a str
_validate_light_entry(light, index) ==
  IF light.type # "dict"
  THEN Returns(PyNone, "Light entry " \o IntToText(index + 1)
                         \o " must be a dictionary")
  ELSE IF ~HasKey(light, "entity_id")
  THEN Returns(PyNone, "Light entry " \o IntToText(index + 1)
                         \o " missing entity_id")
  ELSE LET entity_id == Item(light, "entity_id")
       IN  IF entity_id.type # "str" THEN Raises
           ELSE IF ~StartsWith(entity_id.s, "light.")
           THEN Returns(PyNone, "Invalid entity_id: " \o entity_id.s
                                  \o " (must start with 'light.')")
           ELSE Returns(
                  PyDict(<<CONF_ENTITY_ID, CONF_OFFSET, CONF_MIN_BRIGHTNESS,
                           CONF_MAX_BRIGHTNESS>>,
                         <<entity_id,
                           ItemOr(light, "offset", PyInt(DEFAULT_OFFSET)),
                           ItemOr(light, "min_brightness",
                                  PyInt(DEFAULT_MIN_BRIGHTNESS)),
                           ItemOr(light, "max_brightness",
                                  PyInt(DEFAULT_MAX_BRIGHTNESS))>>),
                  None)

\* yaml_to_config(yaml_string)
yaml_to_config(yaml_string) ==
  LET parsed == safe_load(yaml_string)
  IN  IF parsed.type = "YAMLError"
      THEN Returns(PyNone, "Invalid YAML syntax")
      ELSE IF parsed.type # "dict"
      THEN Returns(PyNone, "YAML must be a dictionary/mapping")
      ELSE IF ~HasKey(parsed, "name")
      THEN Returns(PyNone, "Missing required field: name")
      ELSE IF ~HasKey(parsed, "lights")
      THEN Returns(PyNone, "Missing required field: lights")
      ELSE IF Item(parsed, "lights").type # "list"
      THEN Returns(PyNone, "lights must be a list")
      ELSE IF Len(Item(parsed, "lights").items) < 2
      THEN Returns(PyNone, "At least 2 lights are required")
      ELSE
        LET lights == Item(parsed, "lights").items
            checked == [i \in 1..Len(lights) |->
                          _validate_light_entry(lights[i], i - 1)]
            bad == {i \in 1..Len(lights) :
                      checked[i].raised \/ checked[i].error # None}
        IN  IF bad # {}
            THEN LET first == CHOOSE i \in bad : \A j \in bad : i <= j
                 IN  IF checked[first].raised THEN Raises
                     ELSE Returns(PyNone, checked[first].error)
            ELSE Returns(
                   PyDict(<<CONF_NAME, CONF_OFFSET_TYPE, CONF_LIGHTS>>,
                          <<Item(parsed, "name"),
                            ItemOr(parsed, "offset_type",
                                   PyStr(DEFAULT_OFFSET_TYPE)),
                            PyList([i \in 1..Len(lights) |->
                                      checked[i].config])>>),
                   None)

(***************************************************************************)
(* What users submit to the flows of config_flow.py: YAML texts that are   *)
(* well-formed and texts malformed in each way yaml_to_config looks for or *)
(* overlooks, and what the schemas of the GUI forms let through.           *)
(***************************************************************************)

\* "- entity_id: <entity_id>" followed by "offset: <offset>"
LightDoc(entity_id, offset) ==
  Mapping(<<"entity_id", "offset">>, <<Scalar(entity_id), Scalar(offset)>>)

\* "name: <name>" followed by "lights:" and the entries
GroupDoc(name, lights) ==
  Mapping(<<"name", "lights">>, <<Scalar(name), Sequence(lights)>>)

TwoLights == <<LightDoc("light.a", "0"), LightDoc("light.b", "-25")>>

WellFormedDocs ==
  {GroupDoc("Desk", TwoLights),
   Mapping(<<"name", "offset_type", "lights">>,
           <<Scalar("Den"), Scalar("relative"),
             Sequence(<<LightDoc("light.b", "10"),
                        LightDoc("light.c", "0")>>)>>)}

MalformedDocs ==
  {\* not YAML
   Scalar("name: Desk: lights"),
   \* not a mapping
   Scalar("Desk"),
   \* no name
   Mapping(<<"lights">>, <<Sequence(TwoLights)>>),
   \* no lights
   Mapping(<<"name">>, <<Scalar("Desk")>>),
   \* lights is not a list
   Mapping(<<"name", "lights">>, <<Scalar("Desk"), Scalar("light.a")>>),
   \* fewer than two lights
   GroupDoc("Desk", <<LightDoc("light.a", "0")>>),
   \* an entry of lights that is not a mapping
   GroupDoc("Desk", <<LightDoc("light.a", "0"), Scalar("light.b")>>),
   \* an entry of lights without entity_id
   GroupDoc("Desk", <<LightDoc("light.a", "0"),
                      Mapping(<<"offset">>, <<Scalar("5")>>)>>),
   \* an entity that is not a light
   GroupDoc("Desk", <<LightDoc("light.a", "0"),
                      LightDoc("switch.b", "0")>>),
   \* an entity_id that is not a string
   GroupDoc("Desk", <<LightDoc("light.a", "0"), LightDoc("5", "0")>>),
   \* a name that is not a string
   GroupDoc("123", TwoLights),
   \* an offset that is not a number
   GroupDoc("Hall", <<LightDoc("light.a", "abc"), LightDoc("light.b", "0")>>)}

YamlInputs == WellFormedDocs \cup MalformedDocs

\* yaml_to_config of each of the texts, computed once
Parsed == [yaml_input \in YamlInputs |-> yaml_to_config(yaml_input)]

GuiNames == {"Desk", "desk"}

\* the lights chosen when a group is set up, and when its lights are changed
GuiLights == {<<"light.a">>, <<"light.a", "light.b">>}
ManagedLights == {<<"light.a">>, <<"light.b", "light.c">>}

\* what the number fields of a form let through: offset, minimum, maximum
GuiNumbers == {<<-25, 10, 90>>}

\* the numbers entered for the lights of a form: the same for each of them
NumbersFor(lights) == {[entity_id \in Range(lights) |-> n] : n \in GuiNumbers}

OptionSteps == {"manage_lights", "adjust_offsets", "edit_yaml"}


\* yaml before anything is converted
YamlIdle == [stage |-> "idle", config |-> PyNone, text |-> Scalar(""),
             result |-> Returns(PyNone, None)]

\* config_to_yaml(config) for the configuration in yaml
to_yaml ==
  /\ yaml.stage = "config"
  /\ yaml' = [yaml EXCEPT !.stage = "text",
                          !.text = config_to_yaml(yaml.config)]
  /\ UNCHANGED <<self, added, hass_states, tasks, last, calc, restore_state,
               entries, flows>>

\* yaml_to_config(yaml_string) for the text in yaml
to_config ==
  /\ yaml.stage = "text"
  /\ yaml.text.type # "raised"
  /\ yaml' = [yaml EXCEPT !.stage = "parsed",
                          !.result = yaml_to_config(yaml.text)]
  /\ UNCHANGED <<self, added, hass_states, tasks, last, calc, restore_state,
               entries, flows>>

(***************************************************************************)
(* config_flow.py: the flows.  OffsetLightGroupConfigFlow sets a group up, *)
(* from YAML or from the two forms of the GUI; OffsetLightGroupOptionsFlow *)
(* changes a stored entry.  A flow waits at the form of its step until the *)
(* user submits it; flows of different users are interleaved step by step. *)
(***************************************************************************)

\* the variables no flow changes
light_vars == <<self, added, hass_states, tasks, last, calc, restore_state>>

\* the number of flows that may be in progress at once
MaxFlows == 1

\* the number of config entries that may be stored
MaxEntries == 2

FlowIds == 1..MaxFlows

\* d[key] = value
DictSet(d, key, value) ==
  IF HasKey(d, key)
  THEN [d EXCEPT !.items =
          [i \in 1..Len(d.items) |->
             IF d.keys[i] = key THEN value ELSE d.items[i]]]
  ELSE [d EXCEPT !.keys = Append(d.keys, key),
                 !.items = Append(d.items, value)]

\* what a step returns: a form with its errors, a created entry, or nothing
\* because the step raised
ShowForm(errors, error_detail) ==
  [type |-> "form", errors |-> errors, error_detail |-> error_detail]
CreateEntry == [type |-> "create_entry", errors |-> EmptyDict,
                error_detail |-> ""]
StepRaised == [type |-> "raised", errors |-> EmptyDict, error_detail |-> ""]

\* a flow slot: the step whose form is shown, the entry of an options flow,
\* the flow's fields, and the result of its last step
NoFlow ==
  [step |-> "none", entry |-> 0, _data |-> PyDict(<< >>, << >>),
   _selected_lights |-> << >>, _added_lights |-> << >>,
   result |-> ShowForm(EmptyDict, "")]

\* the flow in slot f has ended with this result
Ended(result) == [NoFlow EXCEPT !.result = result]

\* the name of a stored entry or of a configuration
NameOf(data) == ItemOr(data, CONF_NAME, PyStr(""))

\* entry.data.get(CONF_NAME, "").lower() raises for one of the entries, or
\* name.lower() raises
LowerRaises(name) ==
  \/ name.type # "str"
  \/ \E i \in 1..Len(entries) : NameOf(entries[i].data).type # "str"

\* the entries whose lowercased name is the one given
Named(lower_name) ==
  {i \in 1..Len(entries) : Lower(NameOf(entries[i].data).s) = lower_name}

\* the name is taken: the config flow looks it up in the list of the
\* entries' names (own_entry = 0); the options flow in a dict from name to
\* entry id, where the last entry of a name counts, and lets its own entry
\* keep its name
NameExists(lower_name, own_entry) ==
  /\ Named(lower_name) # {}
  /\ (CHOOSE k \in Named(lower_name) :
        \A j \in Named(lower_name) : j <= k) # own_entry

\* the entry async_create_entry(title, data) stores
NewEntry(title, data) == [title |-> title, data |-> data]

\* async_step_user: the user chooses "yaml" or "gui" and gets that form
async_step_user(f, setup_mode) ==
  /\ flows[f].step = "none"
  /\ flows' = [flows EXCEPT ![f] =
                 [NoFlow EXCEPT !.step = setup_mode]]
  /\ UNCHANGED <<light_vars, entries, yaml>>

\* what the two YAML steps do with (config, error) of yaml_to_config, or
\* with its raising: the errors they show, or the configuration they store
OutcomeOf(r, own_entry) ==
  IF r.raised THEN [result |-> StepRaised, config |-> PyNone]
  ELSE IF r.error # None
  THEN [result |-> ShowForm([yaml_config |-> "invalid_yaml"],
                            "**Error:** " \o r.error),
        config |-> PyNone]
  ELSE IF LowerRaises(NameOf(r.config))
  THEN [result |-> StepRaised, config |-> PyNone]
  ELSE IF NameExists(Lower(NameOf(r.config).s), own_entry)
  THEN [result |-> ShowForm([yaml_config |-> "name_exists"],
                            (IF own_entry = 0
                             THEN "**Error:** A group named '"
                             ELSE "**Error:** Group '")
                            \o NameOf(r.config).s
                            \o "' already exists"),
        config |-> PyNone]
  ELSE [result |-> CreateEntry, config |-> r.config]

\* async_step_yaml(user_input) with the text yaml_input
async_step_yaml(f, yaml_input) ==
  /\ flows[f].step = "yaml"
  /\ Len(entries) < MaxEntries
  /\ \E o \in {OutcomeOf(Parsed[yaml_input], 0)} :
         IF o.result.type = "create_entry"
         THEN /\ entries' = Append(entries,
                                   NewEntry(NameOf(o.config), o.config))
              /\ flows' = [flows EXCEPT ![f] = Ended(o.result)]
         ELSE /\ entries' = entries
              /\ flows' = [flows EXCEPT ![f].result = o.result]
  /\ UNCHANGED <<light_vars, yaml>>

\* async_step_gui(user_input): name and lights, as the form's schema lets
\* them through: a str and a list of light entity ids
async_step_gui(f, name, entity_ids) ==
  /\ flows[f].step = "gui"
  /\ LET flow == [flows[f] EXCEPT
                    !._data = DictSet(@, CONF_NAME, PyStr(name)),
                    !._selected_lights = entity_ids]
     IN  flows' = [flows EXCEPT ![f] =
           IF Len(entity_ids) < 2
           THEN [flow EXCEPT
                   !.result = ShowForm([base |-> "need_two_lights"], "")]
           ELSE IF NameExists(Lower(name), 0)
           THEN [flow EXCEPT
                   !.result = ShowForm([name |-> "name_exists"], "")]
           ELSE [flow EXCEPT !.step = "offsets",
                             !.result = ShowForm(EmptyDict, "")]]
  /\ UNCHANGED <<light_vars, entries, yaml>>

\* the entry of the lights config for entity_id with the numbers entered in
\* the form: a light the form has no field for gets the defaults
LightFromForm(entity_id, numbers) ==
  PyDict(<<CONF_ENTITY_ID, CONF_OFFSET, CONF_MIN_BRIGHTNESS,
           CONF_MAX_BRIGHTNESS>>,
         <<PyStr(entity_id),
           PyInt(IF entity_id \in DOMAIN numbers
                 THEN numbers[entity_id][1] ELSE DEFAULT_OFFSET),
           PyInt(IF entity_id \in DOMAIN numbers
                 THEN numbers[entity_id][2] ELSE DEFAULT_MIN_BRIGHTNESS),
           PyInt(IF entity_id \in DOMAIN numbers
                 THEN numbers[entity_id][3] ELSE DEFAULT_MAX_BRIGHTNESS)>>)

\* async_step_offsets(user_input): the offset type and, per light, the
\* offset, minimum and maximum entered
async_step_offsets(f, offset_type, numbers) ==
  /\ flows[f].step = "offsets"
  /\ Len(entries) < MaxEntries
  /\ LET lights_config ==
           [i \in 1..Len(flows[f]._selected_lights) |->
              LightFromForm(flows[f]._selected_lights[i], numbers)]
         data == DictSet(DictSet(flows[f]._data, CONF_LIGHTS,
                                 PyList(lights_config)),
                         CONF_OFFSET_TYPE, PyStr(offset_type))
     IN  /\ entries' = Append(entries, NewEntry(NameOf(data), data))
         /\ flows' = [flows EXCEPT ![f] = Ended(CreateEntry)]
  /\ UNCHANGED <<light_vars, yaml>>

\* async_step_init: the options menu of entry e, and the form of the option
\* chosen
async_step_init(f, e, option) ==
  /\ flows[f].step = "none"
  /\ e \in 1..Len(entries)
  /\ flows' = [flows EXCEPT ![f] =
                 [NoFlow EXCEPT !.step = option, !.entry = e]]
  /\ UNCHANGED <<light_vars, entries, yaml>>

\* the entity ids of the lights of a stored configuration
CurrentLights(data) ==
  LET lights == ItemOr(data, CONF_LIGHTS, PyList(<< >>)).items
  IN  [i \in 1..Len(lights) |-> Item(lights[i], CONF_ENTITY_ID).s]

\* the lights of the entry of the options flow in slot f
LightsOfFlow(f) ==
  IF flows[f].entry \in DOMAIN entries
  THEN CurrentLights(entries[flows[f].entry].data)
  ELSE << >>

\* a save that builds the entry of every selected light from the form and
\* the defaults, the stored settings of the lights kept being lost
saved_lights_rebuilt(flow, data, numbers) ==
  [i \in 1..Len(flow._selected_lights) |->
     LightFromForm(flow._selected_lights[i], numbers)]

\* _async_save_light_changes(new_entity_configs) of the flow in slot f
SavedLights(flow, data, numbers) ==
  LET lights == ItemOr(data, CONF_LIGHTS, PyList(<< >>)).items
      existing(entity_id) ==
        {i \in 1..Len(lights) :
           Item(lights[i], CONF_ENTITY_ID).s = entity_id}
  IN  [i \in 1..Len(flow._selected_lights) |->
         LET entity_id == flow._selected_lights[i]
         IN  IF existing(entity_id) # {}
             THEN lights[CHOOSE k \in existing(entity_id) :
                           \A j \in existing(entity_id) : j <= k]
             ELSE LightFromForm(entity_id, numbers)]

\* the entries after async_update_entry(entry, data=...)
UpdateEntry(e, title, data) ==
  [entries EXCEPT ![e] = NewEntry(title, data)]

\* async_step_manage_lights(user_input) with the new list of lights
async_step_manage_lights(f, new_lights) ==
  /\ flows[f].step = "manage_lights"
  /\ LET e == flows[f].entry
         current_lights == CurrentLights(entries[e].data)
         flow == [flows[f] EXCEPT
                    !._selected_lights = new_lights,
                    !._added_lights =
                       SelectSeq(new_lights,
                                 LAMBDA x : x \notin Range(current_lights))]
     IN  IF Len(new_lights) < 2
         THEN /\ flows' = [flows EXCEPT ![f].result =
                             ShowForm([base |-> "need_two_lights"], "")]
              /\ entries' = entries
         ELSE IF Len(flow._added_lights) > 0
         THEN /\ flows' = [flows EXCEPT ![f] =
                             [flow EXCEPT !.step = "new_light_offsets",
                                          !.result = ShowForm(EmptyDict, "")]]
              /\ entries' = entries
         ELSE /\ flows' = [flows EXCEPT ![f] = Ended(CreateEntry)]
              /\ entries' =
                   UpdateEntry(e, entries[e].title,
                               DictSet(entries[e].data, CONF_LIGHTS,
                                       PyList(SavedLights(flow,
                                                          entries[e].data,
                                                          << >>))))
  /\ UNCHANGED <<light_vars, yaml>>

\* async_step_new_light_offsets(user_input) with the numbers entered for
\* the added lights
async_step_new_light_offsets(f, numbers) ==
  /\ flows[f].step = "new_light_offsets"
  /\ DOMAIN numbers \subseteq Range(flows[f]._added_lights)
  /\ LET e == flows[f].entry
     IN  entries' =
           UpdateEntry(e, entries[e].title,
                       DictSet(entries[e].data, CONF_LIGHTS,
                               PyList(SavedLights(flows[f], entries[e].data,
                                                  numbers))))
  /\ flows' = [flows EXCEPT ![f] = Ended(CreateEntry)]
  /\ UNCHANGED <<light_vars, yaml>>

\* the entry of a stored light after async_step_adjust_offsets: a number
\* the form has no field for stays as it is stored, or is the default
AdjustedLight(light, numbers) ==
  LET entity_id == Item(light, CONF_ENTITY_ID)
      entered == entity_id.type = "str" /\ entity_id.s \in DOMAIN numbers
  IN  PyDict(<<CONF_ENTITY_ID, CONF_OFFSET, CONF_MIN_BRIGHTNESS,
               CONF_MAX_BRIGHTNESS>>,
             <<entity_id,
               IF entered THEN PyInt(numbers[entity_id.s][1])
               ELSE ItemOr(light, CONF_OFFSET, PyInt(DEFAULT_OFFSET)),
               IF entered THEN PyInt(numbers[entity_id.s][2])
               ELSE ItemOr(light, CONF_MIN_BRIGHTNESS,
                           PyInt(DEFAULT_MIN_BRIGHTNESS)),
               IF entered THEN PyInt(numbers[entity_id.s][3])
               ELSE ItemOr(light, CONF_MAX_BRIGHTNESS,
                           PyInt(DEFAULT_MAX_BRIGHTNESS))>>)

\* async_step_adjust_offsets(user_input) with the offset type and the
\* numbers entered
async_step_adjust_offsets(f, offset_type, numbers) ==
  /\ flows[f].step = "adjust_offsets"
  /\ \E e \in {flows[f].entry} :
       LET lights == ItemOr(entries[e].data, CONF_LIGHTS, PyList(<< >>)).items
           lights_config ==
             [i \in 1..Len(lights) |-> AdjustedLight(lights[i], numbers)]
       IN  entries' =
             UpdateEntry(e, entries[e].title,
                         DictSet(DictSet(entries[e].data, CONF_LIGHTS,
                                         PyList(lights_config)),
                                 CONF_OFFSET_TYPE, PyStr(offset_type)))
  /\ flows' = [flows EXCEPT ![f] = Ended(CreateEntry)]
  /\ UNCHANGED <<light_vars, yaml>>

\* async_step_edit_yaml(user_input) with the text yaml_input; the step
\* first writes the entry's data as YAML, which may raise
async_step_edit_yaml(f, yaml_input) ==
  /\ flows[f].step = "edit_yaml"
  /\ \E e \in {flows[f].entry} :
     \E o \in {IF config_to_yaml(entries[e].data).type = "raised"
               THEN [result |-> StepRaised, config |-> PyNone]
               ELSE OutcomeOf(Parsed[yaml_input], e)} :
         IF o.result.type = "create_entry"
         THEN /\ entries' = UpdateEntry(e, NameOf(o.config), o.config)
              /\ flows' = [flows EXCEPT ![f] = Ended(o.result)]
         ELSE /\ entries' = entries
              /\ flows' = [flows EXCEPT ![f].result = o.result]
  /\ UNCHANGED <<light_vars, yaml>>

(***************************************************************************)
(* light.py: what the group reports of itself.  brightness is an int or    *)
(* None; extra_state_attributes is the dict of the diagnostic attributes.  *)
(***************************************************************************)
\* the brightness property reporting the master brightness of a group that
\* is off as well
brightness_also_when_off(g) == PyInt(g._master_brightness)

\* the brightness property
brightness(g) ==
  IF g._is_on THEN PyInt(g._master_brightness) ELSE PyNone

\* the extra_state_attributes property
extra_state_attributes(g) ==
  [entity_id |-> [i \in 1..Len(g._entities_config) |->
                    g._entities_config[i].entity_id],
   master_brightness |-> g._master_brightness,
   offsets |-> [e \in {g._entities_config[i].entity_id :
                         i \in 1..Len(g._entities_config)} |->
                  GetOr(ConfigOf(g._entities_config, e),
                        CONF_OFFSET, DEFAULT_OFFSET)]]

\* no configuration flow in progress, nothing stored, nothing converted
ConfigIdle ==
  /\ entries = << >>
  /\ flows = << >>
  /\ yaml = YamlIdle

(***************************************************************************)
(* Spec: a group of two members driven by overlapping turn-on and turn-off *)
(* calls and by its members' state changes.                                *)
(***************************************************************************)
LightsConfig ==
  <<[entity_id |-> "light.a"],
    [entity_id |-> "light.b", offset |-> -25,
     min_brightness |-> 10, max_brightness |-> 90]>>

AttrsOff == [supported_color_modes |-> <<"hs", "color_temp">>,
             supported_features |-> {32}]
AttrsHs == [brightness |-> 180, color_mode |-> "hs", hs_color |-> "hs1",
            supported_color_modes |-> <<"hs", "color_temp">>,
            supported_features |-> {32}]

Observations ==
  {[state |-> "off", attributes |-> AttrsOff],
   [state |-> STATE_ON, attributes |-> AttrsHs]}

LastStates ==
  {NoState,
   [state |-> STATE_ON, attributes |-> [master_brightness |-> 64,
                                        brightness |-> 200]]}

TurnOnKwargs ==
  {EmptyDict,
   [brightness |-> 200],
   [brightness |-> 64, transition |-> 2, hs_color |-> "hs2"]}

TurnOffKwargs == {EmptyDict, [transition |-> 2]}

CalcIdle == [stage |-> "idle", entity_id |-> "light.a",
             master_brightness |-> 0, result |-> 0]

Init ==
  /\ \E offset_type \in OffsetTypes :
       self = NewGroup(EntitiesConfigFrom(LightsConfig), offset_type)
  /\ added = FALSE
  /\ hass_states = [e \in {"light.a", "light.b"} |->
                      [state |-> "off", attributes |-> AttrsOff]]
  /\ tasks = [t \in Tasks |-> Idle]
  /\ last = Did("init", NoCall, FALSE)
  /\ calc = CalcIdle
  /\ restore_state \in LastStates
  /\ ConfigIdle

Next ==
  \/ async_added_to_hass
  \/ \E e \in DOMAIN hass_states, o \in Observations :
       async_state_changed_listener(e, o)
  \/ \E t \in Tasks, kwargs \in TurnOnKwargs : async_turn_on(t, kwargs)
  \/ \E t \in Tasks : turn_on_call_returns(t)
  \/ \E t \in Tasks : turn_on_call_raises(t)
  \/ \E t \in Tasks, kwargs \in TurnOffKwargs : async_turn_off(t, kwargs)
  \/ \E t \in Tasks : turn_off_call_returns(t)
  \/ \E t \in Tasks : turn_off_call_raises(t)

Spec == Init /\ [][Next]_vars

(***************************************************************************)
(* SpecResync: a group of three members that is added to hass and then     *)
(* follows its members' state changes; no service call is made to it.      *)
(***************************************************************************)
ResyncLightsConfig ==
  <<[entity_id |-> "light.a"],
    [entity_id |-> "light.b", offset |-> -25],
    [entity_id |-> "light.c", offset |-> 10]>>

AttrsCt == [brightness |-> 90, color_mode |-> "color_temp",
            color_temp |-> "ct1",
            supported_color_modes |-> <<"color_temp">>,
            supported_features |-> {8}]
AttrsBogus == [color_mode |-> "bogus", rgb_color |-> "rgb1",
               supported_color_modes |-> <<"bogus", "rgb">>]

ResyncObservations ==
  {NoState,
   [state |-> STATE_UNAVAILABLE, attributes |-> EmptyDict],
   [state |-> STATE_UNKNOWN, attributes |-> AttrsOff],
   [state |-> "off", attributes |-> AttrsOff],
   [state |-> STATE_ON, attributes |-> AttrsHs],
   [state |-> STATE_ON, attributes |-> AttrsCt],
   [state |-> STATE_ON, attributes |-> AttrsBogus]}

ResyncLastStates ==
  {NoState,
   [state |-> STATE_ON, attributes |-> [master_brightness |-> 64,
                                        brightness |-> 200]],
   [state |-> "off", attributes |-> [brightness |-> 200]],
   [state |-> "off", attributes |-> EmptyDict]}

InitResync ==
  /\ self = NewGroup(EntitiesConfigFrom(ResyncLightsConfig),
                     OFFSET_TYPE_ABSOLUTE)
  /\ added = FALSE
  /\ hass_states \in [{"light.a", "light.b", "light.c"} -> ResyncObservations]
  /\ tasks = [t \in Tasks |-> Idle]
  /\ last = Did("init", NoCall, FALSE)
  /\ calc = CalcIdle
  /\ restore_state \in ResyncLastStates
  /\ ConfigIdle

NextResync ==
  \/ async_added_to_hass
  \/ \E e \in DOMAIN hass_states, o \in ResyncObservations :
       async_state_changed_listener(e, o)

SpecResync == InitResync /\ [][NextResync]_vars

(***************************************************************************)
(* SpecCalc: _calculate_light_brightness called once on a group of one     *)
(* member, for the configurations, offset types and master brightnesses   *)
(* below.                                                                  *)
(***************************************************************************)
CalcLights ==
  {[entity_id |-> "light.a"]}
    \cup {[entity_id |-> "light.a", offset |-> o,
           min_brightness |-> b[1], max_brightness |-> b[2]] :
            o \in CalcOffsets, b \in CalcBounds}

InitCalc ==
  /\ \E light \in CalcLights, offset_type \in OffsetTypes :
       self = NewGroup(EntitiesConfigFrom(<<light>>), offset_type)
  /\ added = FALSE
  /\ hass_states = [e \in {"light.a"} |-> NoState]
  /\ tasks = [t \in Tasks |-> Idle]
  /\ last = Did("init", NoCall, FALSE)
  /\ \E m \in CalcMasters :
       calc = [stage |-> "called", entity_id |-> "light.a",
               master_brightness |-> m, result |-> 0]
  /\ restore_state = NoState
  /\ ConfigIdle

NextCalc == calculate

SpecCalc == InitCalc /\ [][NextCalc]_vars

(***************************************************************************)
(* SpecDispatch: turn-on calls to a group of two members whose offsets and *)
(* percent bounds make the unclamped target leave 0..255 on either side,   *)
(* for both offset types; light.a may have its bounds in inverted order.   *)
(***************************************************************************)
DispatchLightsA ==
  {[entity_id |-> "light.a"]}
    \cup {[entity_id |-> "light.a", offset |-> o,
           min_brightness |-> b[1], max_brightness |-> b[2]] :
            o \in {-100, 100}, b \in {<<1, 100>>, <<10, 90>>, <<90, 10>>}}

DispatchLightsB ==
  {[entity_id |-> "light.b", offset |-> o,
    min_brightness |-> 50, max_brightness |-> 50] : o \in {-25, 50}}

DispatchKwargs ==
  {EmptyDict, [brightness |-> 0], [brightness |-> 100], [brightness |-> 255]}

InitDispatch ==
  /\ \E a \in DispatchLightsA, b \in DispatchLightsB,
        offset_type \in OffsetTypes :
       self = NewGroup(EntitiesConfigFrom(<<a, b>>), offset_type)
  /\ added = FALSE
  /\ hass_states = [e \in {"light.a", "light.b"} |->
                      [state |-> "off", attributes |-> AttrsOff]]
  /\ tasks = [t \in Tasks |-> Idle]
  /\ last = Did("init", NoCall, FALSE)
  /\ calc = CalcIdle
  /\ restore_state \in LastStates
  /\ ConfigIdle

NextDispatch ==
  \/ async_added_to_hass
  \/ \E t \in Tasks, kwargs \in DispatchKwargs : async_turn_on(t, kwargs)
  \/ \E t \in Tasks : turn_on_call_returns(t)
  \/ \E t \in Tasks : turn_on_call_raises(t)

SpecDispatch == InitDispatch /\ [][NextDispatch]_vars

(***************************************************************************)
(* SpecPure: _calculate_light_brightness called in the states a group of   *)
(* two members goes through while it is added, follows its members and is  *)
(* turned on.                                                              *)
(***************************************************************************)
PureMasters == {0, 200}

NextPure ==
  \/ async_added_to_hass
  \/ \E e \in DOMAIN hass_states, o \in Observations :
       async_state_changed_listener(e, o)
  \/ \E t \in Tasks, kwargs \in TurnOnKwargs : async_turn_on(t, kwargs)
  \/ \E t \in Tasks : turn_on_call_returns(t)
  \/ \E m \in PureMasters : calculate_called("light.b", m)
  \/ calculate

SpecPure == Init /\ [][NextPure]_vars

(***************************************************************************)
(* SpecYaml: a structured configuration is written as YAML by              *)
(* config_to_yaml and the text is read back by yaml_to_config.  Every      *)
(* configuration has a name, an offset type and two or three lights, each  *)
(* with an entity_id starting "light." and integer offset, min_brightness  *)
(* and max_brightness.                                                     *)
(***************************************************************************)
YamlNames ==
  {"Living Room", "Desk", "desk 2", "123", "Yes", "off", "null", "1.5",
   "Bed #2", "Lamp: left"}

LightConfig(entity_id, offset, min_brightness, max_brightness) ==
  PyDict(<<CONF_ENTITY_ID, CONF_OFFSET, CONF_MIN_BRIGHTNESS,
           CONF_MAX_BRIGHTNESS>>,
         <<PyStr(entity_id), PyInt(offset), PyInt(min_brightness),
           PyInt(max_brightness)>>)

YamlLights ==
  {LightConfig("light.a", 0, 1, 100),
   LightConfig("light.b", -25, 10, 90),
   LightConfig("light.c_2", 100, 50, 50)}

\* the lists of two or three different lights
YamlLightLists ==
  {<<a, b>> : a \in YamlLights, b \in YamlLights}
    \cup {<<a, b, c>> : a \in YamlLights, b \in YamlLights, c \in YamlLights}

GroupConfig(name, offset_type, lights) ==
  PyDict(<<CONF_NAME, CONF_OFFSET_TYPE, CONF_LIGHTS>>,
         <<PyStr(name), PyStr(offset_type), PyList(lights)>>)

InitYaml ==
  /\ self = NewGroup(EntitiesConfigFrom(LightsConfig), DEFAULT_OFFSET_TYPE)
  /\ added = FALSE
  /\ hass_states = [e \in {"light.a", "light.b"} |->
                      [state |-> "off", attributes |-> AttrsOff]]
  /\ tasks = [t \in Tasks |-> Idle]
  /\ last = Did("init", NoCall, FALSE)
  /\ calc = CalcIdle
  /\ restore_state = NoState
  /\ entries = << >>
  /\ flows = << >>
  /\ \E name \in YamlNames, offset_type \in OffsetTypes,
        lights \in YamlLightLists :
       /\ \A i, j \in 1..Len(lights) : i # j => lights[i] # lights[j]
       /\ yaml = [YamlIdle EXCEPT
                    !.stage = "config",
                    !.config = GroupConfig(name, offset_type, lights)]

NextYaml == to_yaml \/ to_config

SpecYaml == InitYaml /\ [][NextYaml]_vars

(***************************************************************************)
(* SpecConfig: users set groups up and change them through the flows of    *)
(* config_flow.py.  The YAML texts submitted are well-formed ones and ones *)
(* that are malformed in each way yaml_to_config looks for or overlooks;   *)
(* the GUI forms submit what their schemas let through.                    *)
(***************************************************************************)

InitConfig ==
  /\ self = NewGroup(EntitiesConfigFrom(LightsConfig), DEFAULT_OFFSET_TYPE)
  /\ added = FALSE
  /\ hass_states = [e \in {"light.a", "light.b"} |->
                      [state |-> "off", attributes |-> AttrsOff]]
  /\ tasks = [t \in Tasks |-> Idle]
  /\ last = Did("init", NoCall, FALSE)
  /\ calc = CalcIdle
  /\ restore_state = NoState
  /\ yaml = YamlIdle
  /\ entries = << >>
  /\ flows = [f \in FlowIds |-> NoFlow]

NextConfig ==
  \E f \in FlowIds :
    \/ \E setup_mode \in {"yaml", "gui"} : async_step_user(f, setup_mode)
    \/ \E yaml_input \in YamlInputs : async_step_yaml(f, yaml_input)
    \/ \E name \in GuiNames, entity_ids \in GuiLights :
         async_step_gui(f, name, entity_ids)
    \/ \E offset_type \in OffsetTypes,
          numbers \in NumbersFor(flows[f]._selected_lights) :
         async_step_offsets(f, offset_type, numbers)
    \/ \E e \in 1..MaxEntries, option \in OptionSteps :
         async_step_init(f, e, option)
    \/ \E new_lights \in ManagedLights : async_step_manage_lights(f, new_lights)
    \/ \E numbers \in NumbersFor(flows[f]._added_lights) :
         async_step_new_light_offsets(f, numbers)
    \/ \E offset_type \in OffsetTypes,
          numbers \in NumbersFor(LightsOfFlow(f)) :
         async_step_adjust_offsets(f, offset_type, numbers)
    \/ \E yaml_input \in YamlInputs : async_step_edit_yaml(f, yaml_input)

SpecConfig == InitConfig /\ [][NextConfig]_vars

(***************************************************************************)
(* SpecColor: turn-on calls that supply none, one or several of the color  *)
(* attributes at once, to a group of two members whose color state may     *)
(* have been taken from a member before.                                   *)
(***************************************************************************)
\* kwargs supplying each of these sets of color attributes
ColorKwargs ==
  LET payload ==
        [hs_color |-> "hs2", color_temp |-> "ct2", rgb_color |-> "rgb2",
         rgbw_color |-> "rgbw2", rgbww_color |-> "rgbww2",
         xy_color |-> "xy2"]
      supplied ==
        {{}, {ATTR_HS_COLOR}, {ATTR_HS_COLOR, ATTR_RGB_COLOR},
         {ATTR_RGBW_COLOR, ATTR_HS_COLOR}, {ATTR_RGBWW_COLOR, ATTR_HS_COLOR},
         {ATTR_XY_COLOR, ATTR_RGBWW_COLOR}, {ATTR_COLOR_TEMP, ATTR_XY_COLOR},
         {ATTR_RGB_COLOR, ATTR_COLOR_TEMP, ATTR_HS_COLOR},
         Range(COLOR_ATTRS)}
  IN  {[attr \in S |-> payload[attr]] : S \in supplied}

InitColor ==
  /\ self = NewGroup(EntitiesConfigFrom(LightsConfig), DEFAULT_OFFSET_TYPE)
  /\ added = FALSE
  /\ hass_states = [e \in {"light.a", "light.b"} |->
                      [state |-> "off", attributes |-> AttrsOff]]
  /\ tasks = [t \in Tasks |-> Idle]
  /\ last = Did("init", NoCall, FALSE)
  /\ calc = CalcIdle
  /\ restore_state = NoState
  /\ ConfigIdle

NextColor ==
  \/ async_added_to_hass
  \/ \E o \in Observations : async_state_changed_listener("light.a", o)
  \/ \E t \in Tasks, kwargs \in ColorKwargs : async_turn_on(t, kwargs)
  \/ \E t \in Tasks : turn_on_call_returns(t)

SpecColor == InitColor /\ [][NextColor]_vars

(***************************************************************************)
(* SpecLive: Spec in which every awaited service call is resolved: the     *)
(* light service acknowledges it or fails it.                              *)
(***************************************************************************)
\* the service call the coroutine in slot t awaits returns or raises
Resolves(t) ==
  \/ turn_on_call_returns(t)
  \/ turn_on_call_raises(t)
  \/ turn_off_call_returns(t)
  \/ turn_off_call_raises(t)

SpecLive == Spec /\ \A t \in Tasks : WF_vars(Resolves(t))

(***************************************************************************)
(* SpecRange: _calculate_light_brightness called once on a group of one    *)
(* member, along every master brightness 0..255 for some offsets and      *)
(* along every offset -100..100 for some master brightnesses.  The        *)
(* percent bounds are stored as given, so pairs with the minimum above    *)
(* the maximum are among them.                                            *)
(***************************************************************************)
\* <<offset, master_brightness>>
RangeArguments ==
  ({-100, -25, 0, 20, 100} \X (0..255))
    \cup ((-100..100) \X {0, 1, 64, 128, 200, 255})

RangeBounds == {<<1, 100>>, <<10, 90>>, <<90, 10>>, <<51, 50>>}

InitRange ==
  /\ \E a \in RangeArguments, b \in RangeBounds, offset_type \in OffsetTypes :
       /\ self = NewGroup(EntitiesConfigFrom(
                            <<[entity_id |-> "light.a", offset |-> a[1],
                               min_brightness |-> b[1],
                               max_brightness |-> b[2]]>>),
                          offset_type)
       /\ calc = [stage |-> "called", entity_id |-> "light.a",
                  master_brightness |-> a[2], result |-> 0]
  /\ added = FALSE
  /\ hass_states = [e \in {"light.a"} |-> NoState]
  /\ tasks = [t \in Tasks |-> Idle]
  /\ last = Did("init", NoCall, FALSE)
  /\ restore_state = NoState
  /\ ConfigIdle

SpecRange == InitRange /\ [][NextCalc]_vars

(***************************************************************************)
(* SpecRace: two flows in progress at once.  A flow object lives from its  *)
(* first form to its last, and the flow manager runs the steps of          *)
(* different flows in the order their forms are submitted.  The flows are *)
(* the ones that give an entry its name: the YAML import, the two forms   *)
(* of the GUI setup, and the YAML edit of a stored entry.                 *)
(***************************************************************************)
\* the number of flows in progress at once
RaceFlows == 2

InitRace ==
  /\ self = NewGroup(EntitiesConfigFrom(LightsConfig), DEFAULT_OFFSET_TYPE)
  /\ added = FALSE
  /\ hass_states = [e \in {"light.a", "light.b"} |->
                      [state |-> "off", attributes |-> AttrsOff]]
  /\ tasks = [t \in Tasks |-> Idle]
  /\ last = Did("init", NoCall, FALSE)
  /\ calc = CalcIdle
  /\ restore_state = NoState
  /\ yaml = YamlIdle
  /\ entries = << >>
  /\ flows = [f \in 1..RaceFlows |-> NoFlow]

NextRace ==
  \E f \in 1..RaceFlows :
    \/ \E setup_mode \in {"yaml", "gui"} : async_step_user(f, setup_mode)
    \/ \E yaml_input \in WellFormedDocs : async_step_yaml(f, yaml_input)
    \/ \E name \in GuiNames, entity_ids \in GuiLights :
         async_step_gui(f, name, entity_ids)
    \/ \E numbers \in NumbersFor(flows[f]._selected_lights) :
         async_step_offsets(f, DEFAULT_OFFSET_TYPE, numbers)
    \/ \E e \in 1..MaxEntries : async_step_init(f, e, "edit_yaml")
    \/ \E yaml_input \in WellFormedDocs : async_step_edit_yaml(f, yaml_input)

SpecRace == InitRace /\ [][NextRace]_vars

(***************************************************************************)
(* Properties of the operations, checked under Spec.                       *)
(***************************************************************************)
AllIdle == \A t \in Tasks : tasks[t].pc = "idle"

SomeMemberOn(states) == \E e \in DOMAIN states : states[e].state = STATE_ON

\* C1: every turn-on and every turn-off ends with _applying_state cleared,
\* whether its service calls returned or one of them raised: in the state a
\* concluding step leaves, and whenever no operation is in progress, the
\* flag is false.
C1_GuardClearedOnEveryExit ==
  /\ last.kind \in {"turn_on_done", "turn_on_failed",
                    "turn_off_done", "turn_off_failed"}
       => ~self._applying_state
  /\ AllIdle => ~self._applying_state

\* a turn-on whose service call raised has concluded, and the flag is clear
C1_FailedTurnOnConcluded ==
  /\ last.kind = "turn_on_failed"
  /\ AllIdle
  /\ ~self._applying_state

\* C2: a member state change delivered while _applying_state is set leaves
\* is_on, the color state, the supported color modes and the supported
\* features as they were and writes no state; one delivered while the flag
\* is clear runs _update_state_from_members and writes the state.  Only the
\* listener's step changes hass_states.
C2_NotificationUnderGuard ==
  [][hass_states' # hass_states =>
       IF self._applying_state
       THEN /\ self'._is_on = self._is_on
            /\ ColorState(self') = ColorState(self)
            /\ self'._supported_color_modes = self._supported_color_modes
            /\ self'._supported_features = self._supported_features
            /\ ~last'.wrote
       ELSE /\ self' = _update_state_from_members(self, hass_states')
            /\ self'._is_on = SomeMemberOn(hass_states')
            /\ last'.wrote]_vars

\* a member went on while the flag was set, and the group still reads off
C2_NotificationIgnored ==
  /\ last.kind = "ignored"
  /\ self._applying_state
  /\ SomeMemberOn(hass_states)
  /\ ~self._is_on

\* C3: no step of a turn-off changes _master_brightness; the first step of
\* a turn-on sets it to the brightness argument when there is one and
\* leaves it as it was when there is none; and every light.turn_on call
\* carries the brightness computed from the _master_brightness the group
\* then holds.  So turn-on with brightness b, turn-off, turn-on without a
\* brightness leaves b and dispatches from b.
C3_MasterBrightnessRetained ==
  [][/\ last'.kind \in {"turn_off", "turn_off_done", "turn_off_failed"}
          => self'._master_brightness = self._master_brightness
     /\ \A t \in Tasks :
          (last'.kind = "turn_on" /\ tasks[t].pc = "idle"
             /\ tasks'[t].pc = "turn_on")
            => self'._master_brightness =
                 IF ATTR_BRIGHTNESS \in DOMAIN tasks'[t].kwargs
                 THEN tasks'[t].kwargs[ATTR_BRIGHTNESS]
                 ELSE self._master_brightness
     /\ last'.call.service = SERVICE_TURN_ON
          => last'.call.data[ATTR_BRIGHTNESS] =
               _calculate_light_brightness(
                 self', last'.call.data[ATTR_ENTITY_ID],
                 self'._master_brightness)]_vars

\* a turn-on without a brightness argument has just dispatched its first
\* call: the group is off, its master brightness is the 200 of an earlier
\* turn-on, and the call carries the brightness computed from 200
C3_TurnOnRestoresBrightness ==
  /\ last.kind = "turn_on"
  /\ \E t \in Tasks : /\ tasks[t].pc = "turn_on"
                      /\ tasks[t].i = 1
                      /\ DOMAIN tasks[t].kwargs = {}
                      /\ \A u \in Tasks \ {t} : tasks[u].pc = "idle"
  /\ ~self._is_on
  /\ self._master_brightness = 200
  /\ last.call.data[ATTR_BRIGHTNESS] =
       _calculate_light_brightness(self, "light.a", 200)

(***************************************************************************)
(* Properties of the resynchronization pass, checked under SpecResync.     *)
(***************************************************************************)
PassRan == last.kind \in {"added", "resync"}

OnMembers(states) == {e \in DOMAIN states : states[e].state = STATE_ON}

\* C4: the pass never changes _master_brightness: a member state change
\* leaves it as it was, whatever the members report, and
\* async_added_to_hass leaves the restored or default value.
C4_PassKeepsMasterBrightness ==
  [][/\ hass_states' # hass_states
          => self'._master_brightness = self._master_brightness
     /\ (~added /\ added')
          => \E last_state \in ResyncLastStates :
               self'._master_brightness =
                 RestoreState(self, last_state)._master_brightness]_vars

\* the pass ran with a member on at a brightness other than the group's,
\* and the group holds the restored 64
C4_MemberBrightnessDiffers ==
  /\ last.kind = "resync"
  /\ self._master_brightness = 64
  /\ \E e \in OnMembers(hass_states) :
       /\ ATTR_BRIGHTNESS \in DOMAIN hass_states[e].attributes
       /\ hass_states[e].attributes[ATTR_BRIGHTNESS] # 64

\* C5: after every pass _is_on holds exactly when some member whose state
\* is present and neither unavailable nor unknown reports on.
C5_IsOnIffSomeMemberOn ==
  PassRan =>
    (self._is_on <=>
       \E e \in DOMAIN hass_states :
         /\ hass_states[e].state \notin {None, STATE_UNAVAILABLE, STATE_UNKNOWN}
         /\ hass_states[e].state = STATE_ON)

\* the pass ran with the first member unavailable, the second off and the
\* third on, and the group is on
C5_OnlyLastMemberOn ==
  /\ last.kind = "resync"
  /\ hass_states["light.a"].state = STATE_UNAVAILABLE
  /\ hass_states["light.b"].state = "off"
  /\ hass_states["light.c"].state = STATE_ON
  /\ self._is_on

\* C6: a pass in which no member is on sets _is_on to false and leaves the
\* color mode and the six color payload fields as they were.
C6_NoMemberOnKeepsColor ==
  [][(last'.kind \in {"added", "resync"}
        /\ (hass_states' # hass_states \/ ~added)
        /\ OnMembers(hass_states') = {})
       => /\ ~self'._is_on
          /\ ColorState(self') = ColorState(self)]_vars

\* the pass ran with no member on, and the group keeps the hs color of the
\* member that was on before
C6_ColorKeptWhenOff ==
  /\ last.kind = "resync"
  /\ OnMembers(hass_states) = {}
  /\ ~self._is_on
  /\ self._color_mode = "hs"
  /\ self._hs_color = "hs1"

\* the color payload of the group equals the attributes a
PayloadCopied(a) ==
  /\ self._hs_color = Get(a, ATTR_HS_COLOR)
  /\ self._color_temp = Get(a, ATTR_COLOR_TEMP)
  /\ self._rgb_color = Get(a, ATTR_RGB_COLOR)
  /\ self._rgbw_color = Get(a, ATTR_RGBW_COLOR)
  /\ self._rgbww_color = Get(a, ATTR_RGBWW_COLOR)
  /\ self._xy_color = Get(a, ATTR_XY_COLOR)

\* C7 as stated: after a pass with exactly one member on, the six color
\* fields equal that member's attributes (None where it reports none) and
\* the color mode equals the member's color mode.
C7_ColorModeCopiedVerbatim ==
  (PassRan /\ Cardinality(OnMembers(hass_states)) = 1)
    => \A e \in OnMembers(hass_states) :
         /\ PayloadCopied(hass_states[e].attributes)
         /\ self._color_mode = Get(hass_states[e].attributes, ATTR_COLOR_MODE)

\* C7: after a pass with exactly one member on, the six color fields equal
\* that member's attributes (None where it reports none); the color mode
\* equals the member's color mode when that is a value of ColorMode, and is
\* None when the member reports any other color mode or none.
C7_ColorCopiedModeRecognized ==
  (PassRan /\ Cardinality(OnMembers(hass_states)) = 1)
    => \A e \in OnMembers(hass_states) :
         /\ PayloadCopied(hass_states[e].attributes)
         /\ self._color_mode =
              IF Get(hass_states[e].attributes, ATTR_COLOR_MODE) \in ColorMode
              THEN hass_states[e].attributes[ATTR_COLOR_MODE]
              ELSE None

\* the pass ran with one member on, reporting the color mode "bogus" and an
\* rgb color: the group has the rgb color, no hs color and no color mode
C7_UnrecognizedModeDropped ==
  /\ last.kind = "resync"
  /\ Cardinality(OnMembers(hass_states)) = 1
  /\ \E e \in OnMembers(hass_states) :
       hass_states[e].attributes = AttrsBogus
  /\ self._rgb_color = "rgb1"
  /\ self._hs_color = None
  /\ self._color_mode = None

(***************************************************************************)
(* Properties of the brightness mapping, checked under SpecCalc.  The      *)
(* group has the one member light.a.                                       *)
(***************************************************************************)
Returned == calc.stage = "returned"

Member == self._entities_config[1]

Clamp(x, lo, hi) == Max2(lo, Min2(hi, x))

\* n / d rounded to the nearest integer, ties to the even one (d > 0)
RoundDiv(n, d) ==
  LET q == n \div d
      r == n % d
  IN  IF 2 * r < d THEN q
      ELSE IF 2 * r > d THEN q + 1
      ELSE IF q % 2 = 0 THEN q ELSE q + 1

\* n / d truncated toward zero (d > 0)
TruncDiv(n, d) == IF n >= 0 THEN n \div d ELSE -((-n) \div d)

\* t is what int() makes of the float computed for the exact value n / 100:
\* n / 100 truncated toward zero, except that where n / 100 is a whole
\* number the float may fall just short of it
TruncatedFloat(t, n) ==
  IF n % 100 # 0 THEN t = TruncDiv(n, 100)
  ELSE \/ t = n \div 100
       \/ t = (n \div 100) - (IF n > 0 THEN 1 ELSE -1)

\* C8 as stated: in absolute mode the result is
\* clamp(round((m/255*100+offset)/100*255), round(minPct/100*255),
\* round(maxPct/100*255)); (m/255*100+offset)/100*255 is
\* (100*m + 255*offset)/100.
C8_AbsoluteRounded ==
  (Returned /\ self._offset_type = OFFSET_TYPE_ABSOLUTE)
    => calc.result =
         Clamp(RoundDiv(100 * calc.master_brightness + 255 * Member.offset, 100),
               RoundDiv(255 * Member.min_brightness, 100),
               RoundDiv(255 * Member.max_brightness, 100))

\* C8: in absolute mode the result is clamp(t, lo, hi) where lo and hi are
\* 255*minPct/100 and 255*maxPct/100 rounded down and t is
\* int((m/255*100+offset)/100*255) in float arithmetic: the exact value
\* truncated toward zero, or one nearer to zero where the exact value is a
\* whole number that the float falls short of.
C8_AbsoluteTruncated ==
  (Returned /\ self._offset_type = OFFSET_TYPE_ABSOLUTE)
    => LET t == TargetBrightness(OFFSET_TYPE_ABSOLUTE, Member.offset,
                                 calc.master_brightness)
       IN  /\ calc.result = Clamp(t, (255 * Member.min_brightness) \div 100,
                                  (255 * Member.max_brightness) \div 100)
           /\ TruncatedFloat(t, 100 * calc.master_brightness
                                  + 255 * Member.offset)

\* absolute mode, master 100, offset 25, bounds 1 and 100 percent: the
\* exact target is 163.75 and the result 163
C8_FractionDropped ==
  /\ Returned
  /\ self._offset_type = OFFSET_TYPE_ABSOLUTE
  /\ calc.master_brightness = 100
  /\ Member.offset = 25
  /\ Member.min_brightness = 1
  /\ Member.max_brightness = 100
  /\ calc.result = 163

\* C9 as stated: in relative mode the result is
\* clamp(round(m*(100+offset)/100), minBound, maxBound), the bounds being
\* the percent bounds on the 0-255 scale as the code converts them.
C9_RelativeRounded ==
  (Returned /\ self._offset_type = OFFSET_TYPE_RELATIVE)
    => calc.result =
         Clamp(RoundDiv(calc.master_brightness * (100 + Member.offset), 100),
               PctToBrightness(Member.min_brightness),
               PctToBrightness(Member.max_brightness))

\* C9: in relative mode the result is clamp(t, lo, hi) where lo and hi are
\* 255*minPct/100 and 255*maxPct/100 rounded down and t is
\* int(m * ((100+offset)/100)) in float arithmetic: the exact value
\* truncated, or one less where the exact value is a whole number that the
\* float falls short of.
C9_RelativeTruncated ==
  (Returned /\ self._offset_type = OFFSET_TYPE_RELATIVE)
    => LET t == TargetBrightness(OFFSET_TYPE_RELATIVE, Member.offset,
                                 calc.master_brightness)
       IN  /\ calc.result = Clamp(t, (255 * Member.min_brightness) \div 100,
                                  (255 * Member.max_brightness) \div 100)
           /\ TruncatedFloat(t, calc.master_brightness
                                  * (100 + Member.offset))

\* relative mode, master 10, offset -23, bounds 1 and 100 percent: the
\* exact target is 7.7 and the result 7
C9_FractionDropped ==
  /\ Returned
  /\ self._offset_type = OFFSET_TYPE_RELATIVE
  /\ calc.master_brightness = 10
  /\ Member.offset = -23
  /\ Member.min_brightness = 1
  /\ Member.max_brightness = 100
  /\ calc.result = 7

\* the example of C10: absolute mode, master 200, offset -25, bounds 1 and
\* 100 percent
Example ==
  /\ Returned
  /\ self._offset_type = OFFSET_TYPE_ABSOLUTE
  /\ calc.master_brightness = 200
  /\ Member.offset = -25
  /\ Member.min_brightness = 1
  /\ Member.max_brightness = 100

\* C10 as stated: in the example the converted bounds are 2 and 255 and the
\* result is 135.
C10_ExampleIs135 ==
  Example => /\ PctToBrightness(Member.min_brightness) = 2
             /\ PctToBrightness(Member.max_brightness) = 255
             /\ calc.result = 135

\* C10: in the example the converted bounds are 2 and 255 and the result is
\* 136, the 136.25 of 200/255*100 - 25 percent of 255 truncated; no
\* intermediate percentage is rounded.
C10_ExampleIs136 ==
  Example => /\ PctToBrightness(Member.min_brightness) = 2
             /\ PctToBrightness(Member.max_brightness) = 255
             /\ calc.result = 136

\* the example has been computed
C10_ExampleComputed == Example /\ calc.result = 136

\* the example of C11: relative mode, master 200, offset -25, bounds 1 and
\* 100 percent
RelativeExample ==
  /\ Returned
  /\ self._offset_type = OFFSET_TYPE_RELATIVE
  /\ calc.master_brightness = 200
  /\ Member.offset = -25
  /\ Member.min_brightness = 1
  /\ Member.max_brightness = 100

\* C11: in relative mode with master 200, offset -25 and bounds 1 and 100
\* percent the computed member brightness is 150 (200 * 0.75, inside the
\* converted bounds 2 and 255).
C11_RelativeExampleIs150 == RelativeExample => calc.result = 150

\* the relative example has been computed
C11_RelativeExampleComputed ==
  /\ RelativeExample
  /\ PctToBrightness(Member.min_brightness) = 2
  /\ PctToBrightness(Member.max_brightness) = 255
  /\ calc.result = 150

(***************************************************************************)
(* Properties of the dispatch of a turn-on, checked under SpecDispatch.    *)
(***************************************************************************)

\* the last step issued a light.turn_on call
TurnOnIssued == last.call.service = SERVICE_TURN_ON

\* the configuration of the member the last light.turn_on call went to
Callee == ConfigOf(self._entities_config, last.call.data[ATTR_ENTITY_ID])

\* the target of the last light.turn_on call before the clamp
Unclamped == Target(self._offset_type, Callee.offset, self._master_brightness)

\* C12: the brightness of every light.turn_on call the group issues is an
\* integer in 0..255 and, when the member's min_brightness is at most its
\* max_brightness, lies between 255*min_brightness/100 and
\* 255*max_brightness/100 rounded down, whatever the unclamped target is,
\* in both offset modes.
C12_DispatchedBrightnessInBounds ==
  TurnOnIssued =>
    LET b == last.call.data[ATTR_BRIGHTNESS]
    IN  /\ b \in 0..255
        /\ Callee.min_brightness <= Callee.max_brightness
             => /\ b >= (255 * Callee.min_brightness) \div 100
                /\ b <= (255 * Callee.max_brightness) \div 100

\* a call has been issued whose unclamped target is outside 0..255
C12_OvershootClamped ==
  /\ TurnOnIssued
  /\ Unclamped \notin 0..255
  /\ last.call.data[ATTR_BRIGHTNESS] \in 0..255

\* a call has been issued whose unclamped target is negative
C12_NegativeTargetClamped ==
  /\ TurnOnIssued
  /\ Unclamped < 0
  /\ last.call.data[ATTR_BRIGHTNESS] = (255 * Callee.min_brightness) \div 100

(***************************************************************************)
(* Properties of the operations under overlapping calls, checked under     *)
(* Spec.                                                                   *)
(***************************************************************************)

\* the step starts a turn-off in slot t
TurnOffStarts(t) == tasks[t].pc = "idle" /\ tasks'[t].pc = "turn_off"

\* the step ends the turn-off in slot t
TurnOffEnds(t) == tasks[t].pc = "turn_off" /\ tasks'[t].pc = "idle"

\* C13: a turn-off issues one light.turn_off call, in its first step: the
\* call's entity_id is the list of all configured members, it carries the
\* transition exactly when the turn-off was given one, and it leaves _is_on
\* as it was; the step that ends the turn-off issues no call, and sets _is_on
\* to false when the call returned and leaves it unchanged when the call
\* raised.  No other step issues a light.turn_off call.
C13_TurnOffOneBatchedCommand ==
  [][/\ \A t \in Tasks :
          /\ TurnOffStarts(t) =>
               /\ last'.call.service = SERVICE_TURN_OFF
               /\ last'.call.data[ATTR_ENTITY_ID] = EntityIds(self)
               /\ Len(last'.call.data[ATTR_ENTITY_ID])
                    = Len(self._entities_config)
               /\ DOMAIN last'.call.data =
                    {ATTR_ENTITY_ID}
                      \cup ({ATTR_TRANSITION} \cap DOMAIN tasks'[t].kwargs)
               /\ ATTR_TRANSITION \in DOMAIN tasks'[t].kwargs =>
                    last'.call.data[ATTR_TRANSITION]
                      = tasks'[t].kwargs[ATTR_TRANSITION]
               /\ self'._is_on = self._is_on
          /\ TurnOffEnds(t) =>
               /\ last'.call.service = None
               /\ IF last'.kind = "turn_off_done"
                  THEN ~self'._is_on /\ last'.wrote
                  ELSE self'._is_on = self._is_on
     /\ last'.call.service = SERVICE_TURN_OFF
          => \E t \in Tasks : TurnOffStarts(t)]_vars

\* a turn-off given a transition has issued its call and the group is still
\* on while the call is awaited
C13_OffCommandAwaited ==
  /\ last.kind = "turn_off"
  /\ last.call.data = [entity_id |-> <<"light.a", "light.b">>,
                       transition |-> 2]
  /\ self._is_on
  /\ \E t \in Tasks : tasks[t].pc = "turn_off"

\* the step starts a turn-on in slot t
TurnOnStarts(t) == tasks[t].pc = "idle" /\ tasks'[t].pc = "turn_on"

\* the step takes the turn-on in slot t from one awaited call to the next
TurnOnAdvances(t) ==
  /\ tasks[t].pc = "turn_on"
  /\ tasks'[t].pc = "turn_on"
  /\ tasks'[t] # tasks[t]

\* the step ends the turn-on in slot t
TurnOnEnds(t) == tasks[t].pc = "turn_on" /\ tasks'[t].pc = "idle"

\* the step issues the light.turn_on call of the turn-on in slot t to the
\* i-th configured member, and to nobody else
CallsMember(t, i) ==
  /\ tasks'[t].i = i
  /\ last'.call.service = SERVICE_TURN_ON
  /\ last'.call.data[ATTR_ENTITY_ID] = EntityIds(self)[i]

\* C14: a turn-on issues its light.turn_on calls one at a time in the
\* configured order: its first step calls the first member; the call to
\* member i+1 is issued by the step in which the call to member i returns,
\* and by no other; the turn-on ends successfully only when the call to the
\* last member has returned, and that step sets _is_on, which no earlier
\* step of the turn-on changes.  So a successful turn-on calls each member
\* exactly once.
C14_MembersCalledInOrder ==
  [][/\ \A t \in Tasks :
          /\ TurnOnStarts(t) =>
               CallsMember(t, 1) /\ self'._is_on = self._is_on
          /\ TurnOnAdvances(t) =>
               /\ last'.kind = "turn_on_next"
               /\ CallsMember(t, tasks[t].i + 1)
               /\ self'._is_on = self._is_on
          /\ TurnOnEnds(t) =>
               /\ last'.call.service = None
               /\ IF last'.kind = "turn_on_done"
                  THEN /\ tasks[t].i = Len(self._entities_config)
                       /\ self'._is_on
                       /\ last'.wrote
                  ELSE self'._is_on = self._is_on
     /\ last'.call.service = SERVICE_TURN_ON
          => \E t \in Tasks : TurnOnStarts(t) \/ TurnOnAdvances(t)]_vars

\* the call to the first member has returned and the second member has
\* been called, the group not yet being on
C14_SecondMemberCalled ==
  /\ last.kind = "turn_on_next"
  /\ last.call.data[ATTR_ENTITY_ID] = "light.b"
  /\ \E t \in Tasks : tasks[t].pc = "turn_on" /\ tasks[t].i = 2
  /\ ~self._is_on

\* the turn-on in slot t is the only operation in progress before and after
\* the step
OnlyTurnOn(t) ==
  /\ tasks[t].pc = "turn_on"
  /\ \A u \in Tasks \ {t} : tasks[u].pc = "idle" /\ tasks'[u].pc = "idle"

\* C15: when the light.turn_on call to a member raises, the turn-on ends in
\* that step as failed: it issues no call to any later member, writes no
\* state, and changes nothing of the group but _applying_state, which it
\* clears; _is_on in particular is not set.  While a turn-on is the only
\* operation in progress and _applying_state is set, no step but its
\* successful end changes _is_on, so after the failure _is_on has the value
\* it had when the turn-on began.
C15_FailedTurnOnLeavesStateStale ==
  [][/\ last'.kind = "turn_on_failed" =>
          /\ \E t \in Tasks : TurnOnEnds(t) /\ tasks'[t] = Idle
          /\ last'.call.service = None
          /\ ~last'.wrote
          /\ self' = [self EXCEPT !._applying_state = FALSE]
          /\ self'._is_on = self._is_on
          /\ ~self'._applying_state
     /\ \A t \in Tasks :
          /\ TurnOnEnds(t) => last'.kind \in {"turn_on_done", "turn_on_failed"}
          /\ (OnlyTurnOn(t) /\ self._applying_state
                /\ last'.kind # "turn_on_done") =>
               self'._is_on = self._is_on]_vars

\* a turn-on with brightness 200 of the group that was off has failed: the
\* group is still off, nothing was written, the flag is clear and no
\* operation is in progress
C15_FailedTurnOnGroupStillOff ==
  /\ last.kind = "turn_on_failed"
  /\ ~last.wrote
  /\ AllIdle
  /\ ~self._is_on
  /\ self._master_brightness = 200
  /\ ~self._applying_state

\* C16 as stated: from the first call of a turn-on or turn-off until that
\* operation concludes _applying_state is set, also when a second operation
\* starts while the first is suspended: whenever an operation is awaiting a
\* service call, the flag is set.
C16_GuardSetUntilConcluded ==
  (\E t \in Tasks : tasks[t].pc # "idle") => self._applying_state

\* a turn-on is still awaiting a light.turn_on call, the flag has been
\* cleared by another operation that concluded meanwhile, and a member
\* state change has run _update_state_from_members
C16_ResyncDuringTurnOn ==
  /\ \E t \in Tasks : tasks[t].pc = "turn_on"
  /\ ~self._applying_state
  /\ last.kind = "resync"

(***************************************************************************)
(* C17                                                                     *)
(***************************************************************************)
\* a light entry as the configuration model has it: an entity_id that is a
\* str starting "light." and, where given, integer offset, min_brightness
\* and max_brightness
WellFormedLight(light) ==
  /\ light.type = "dict"
  /\ HasKey(light, CONF_ENTITY_ID)
  /\ Item(light, CONF_ENTITY_ID).type = "str"
  /\ StartsWith(Item(light, CONF_ENTITY_ID).s, "light.")
  /\ \A key \in {CONF_OFFSET, CONF_MIN_BRIGHTNESS, CONF_MAX_BRIGHTNESS} :
       HasKey(light, key) => Item(light, key).type = "int"

\* a configuration with a str name, a list of at least two well-formed
\* lights and a str offset type
WellFormedConfig(data) ==
  /\ data.type = "dict"
  /\ HasKey(data, CONF_NAME) /\ Item(data, CONF_NAME).type = "str"
  /\ HasKey(data, CONF_LIGHTS) /\ Item(data, CONF_LIGHTS).type = "list"
  /\ Len(Item(data, CONF_LIGHTS).items) >= 2
  /\ \A i \in 1..Len(Item(data, CONF_LIGHTS).items) :
       WellFormedLight(Item(data, CONF_LIGHTS).items[i])
  /\ HasKey(data, CONF_OFFSET_TYPE) =>
       Item(data, CONF_OFFSET_TYPE).type = "str"

\* C17 as stated: malformed configuration is rejected and never stored, so
\* every stored entry has a name, at least two lights that are light
\* entities, and fields of the right types.
C17_StoredConfigIsWellFormed ==
  \A i \in 1..Len(entries) : WellFormedConfig(entries[i].data)

\* a configuration whose offset is the text "abc" has been stored
C17_TextOffsetStored ==
  \E i \in 1..Len(entries) :
    \E k \in 1..Len(Item(entries[i].data, CONF_LIGHTS).items) :
      LET light == Item(entries[i].data, CONF_LIGHTS).items[k]
      IN  HasKey(light, CONF_OFFSET) /\ Item(light, CONF_OFFSET) = PyStr("abc")

(***************************************************************************)
(* Properties of the YAML form, checked under SpecYaml.                    *)
(***************************************************************************)

\* C18 as stated: for every configuration with a name, an offset type and
\* at least two lights with integer fields,
\* yaml_to_config(config_to_yaml(config)) returns that configuration and no
\* error.
C18_RoundTripIsIdentity ==
  yaml.stage = "parsed" =>
    /\ ~yaml.result.raised
    /\ yaml.result.error = None
    /\ PyEq(yaml.result.config, yaml.config)

\* the configuration named "123" has come back with the int 123 as its
\* name, and no error
C18_NumericNameReadAsInt ==
  /\ yaml.stage = "parsed"
  /\ Item(yaml.config, CONF_NAME) = PyStr("123")
  /\ yaml.result.error = None
  /\ Item(yaml.result.config, CONF_NAME) = PyInt(123)
  /\ PyEq(Item(yaml.result.config, CONF_LIGHTS),
          Item(yaml.config, CONF_LIGHTS))

(***************************************************************************)
(* Properties of construction and restore, checked under SpecResync.       *)
(***************************************************************************)

\* C19: the group is constructed off with _master_brightness 128, and so it
\* stays until async_added_to_hass runs.  Once it has run,
\* _master_brightness is 128 when there is no stored state, and otherwise
\* the stored master_brightness attribute if there is one, else the stored
\* brightness attribute if there is one, else 128.
C19_InitialAndRestoredBrightness ==
  /\ ~added => ~self._is_on /\ self._master_brightness = 128
  /\ added =>
       LET a == restore_state.attributes
       IN  self._master_brightness =
             IF restore_state.state = None THEN 128
             ELSE IF ATTR_MASTER_BRIGHTNESS \in DOMAIN a
             THEN a[ATTR_MASTER_BRIGHTNESS]
             ELSE IF ATTR_BRIGHTNESS \in DOMAIN a
             THEN a[ATTR_BRIGHTNESS]
             ELSE 128

\* the group has been added with a stored state that has both attributes:
\* master_brightness 64 is taken, brightness 200 is not
C19_MasterBrightnessAttributeWins ==
  /\ added
  /\ restore_state.state = STATE_ON
  /\ restore_state.attributes[ATTR_MASTER_BRIGHTNESS] = 64
  /\ restore_state.attributes[ATTR_BRIGHTNESS] = 200
  /\ self._master_brightness = 64

(***************************************************************************)
(* Properties of _calculate_light_brightness as a function, checked under  *)
(* SpecPure.                                                               *)
(***************************************************************************)

\* C20: the result of _calculate_light_brightness depends on its
\* master_brightness argument, the member's configuration and the offset
\* type only: in whatever state the group is, it is the result the call has
\* on the newly constructed group with that configuration and offset type;
\* and the call changes nothing of the group: not _is_on, not
\* _master_brightness, not the color state, not _applying_state.
C20_CalculationIsPure ==
  /\ [](calc.stage = "returned" =>
          calc.result =
            _calculate_light_brightness(
              NewGroup(self._entities_config, self._offset_type),
              calc.entity_id, calc.master_brightness))
  /\ [][(calc.stage = "called" /\ calc'.stage = "returned") =>
          /\ self' = self
          /\ calc'.entity_id = calc.entity_id
          /\ calc'.master_brightness = calc.master_brightness
          /\ <<added, hass_states, tasks, last>>'
               = <<added, hass_states, tasks, last>>]_vars

\* the mapping has been computed for light.b and master brightness 200
\* while the group was on, in hs mode, with another master brightness of
\* its own, in the middle of a turn-on
C20_ComputedDuringTurnOn ==
  /\ calc.stage = "returned"
  /\ calc.entity_id = "light.b"
  /\ calc.master_brightness = 200
  /\ self._is_on
  /\ self._applying_state
  /\ self._master_brightness = 64
  /\ self._color_mode = "hs"

(***************************************************************************)
(* C21                                                                     *)
(***************************************************************************)
\* the step issues a light.turn_on call of the turn-on in slot t
TurnOnCalls(t) ==
  /\ TurnOnStarts(t) \/ TurnOnAdvances(t)
  /\ last'.call.service = SERVICE_TURN_ON

\* the call the step issues carries the color attributes and the transition
\* of kwargs, unchanged, and no others
ForwardsKwargs(kwargs) ==
  /\ \A attr \in Range(COLOR_ATTRS) \cup {ATTR_TRANSITION} :
       IF attr \in DOMAIN kwargs
       THEN /\ attr \in DOMAIN last'.call.data
            /\ last'.call.data[attr] = kwargs[attr]
       ELSE attr \notin DOMAIN last'.call.data

\* the call the step issues carries the target of its member computed from
\* master_brightness
CarriesTargetOf(master_brightness) ==
  last'.call.data[ATTR_BRIGHTNESS] =
    _calculate_light_brightness(self', last'.call.data[ATTR_ENTITY_ID],
                                master_brightness)

\* C21 as stated: every light.turn_on call issued by a turn-on that was
\* given a brightness carries the target computed from that brightness, and
\* every call carries the supplied color attributes unchanged and a
\* transition exactly if one was supplied.
C21_CommandsCarrySuppliedBrightness ==
  [][\A t \in Tasks :
       TurnOnCalls(t) =>
         /\ ForwardsKwargs(tasks'[t].kwargs)
         /\ ATTR_BRIGHTNESS \in DOMAIN tasks'[t].kwargs =>
              CarriesTargetOf(tasks'[t].kwargs[ATTR_BRIGHTNESS])]_vars

\* what does hold: every call carries the target computed from the master
\* brightness as it is when the call is issued, which for the call to the
\* first member is the brightness the turn-on was given
C21_CommandsCarryCurrentMaster ==
  [][\A t \in Tasks :
       TurnOnCalls(t) =>
         /\ ForwardsKwargs(tasks'[t].kwargs)
         /\ CarriesTargetOf(self'._master_brightness)
         /\ (ATTR_BRIGHTNESS \in DOMAIN tasks'[t].kwargs
               /\ TurnOnStarts(t)) =>
              CarriesTargetOf(tasks'[t].kwargs[ATTR_BRIGHTNESS])]_vars

\* the turn-on given brightness 200 has called light.a with the target of
\* 200 and now calls light.b with the target of 64, the brightness of a
\* turn-on that began in between
C21_SecondCommandFromOtherBrightness ==
  /\ last.kind = "turn_on_next"
  /\ last.call.data[ATTR_ENTITY_ID] = "light.b"
  /\ \E t \in Tasks :
       /\ tasks[t].pc = "turn_on" /\ tasks[t].i = 2
       /\ ATTR_BRIGHTNESS \in DOMAIN tasks[t].kwargs
       /\ tasks[t].kwargs[ATTR_BRIGHTNESS] = 200
  /\ self._master_brightness = 64
  /\ last.call.data[ATTR_BRIGHTNESS] =
       _calculate_light_brightness(self, "light.b", 64)
  /\ last.call.data[ATTR_BRIGHTNESS] #
       _calculate_light_brightness(self, "light.b", 200)

(***************************************************************************)
(* C22                                                                     *)
(***************************************************************************)
\* the order in which _store_color_from_kwargs checks the attributes, and
\* the color mode of each
ColorCheckOrder ==
  <<ATTR_HS_COLOR, ATTR_RGB_COLOR, ATTR_RGBW_COLOR, ATTR_RGBWW_COLOR,
    ATTR_XY_COLOR, ATTR_COLOR_TEMP>>

ModeOfAttr ==
  [hs_color |-> "hs", rgb_color |-> "rgb", rgbw_color |-> "rgbw",
   rgbww_color |-> "rgbww", xy_color |-> "xy", color_temp |-> "color_temp"]

\* the color attributes kwargs supplies
Supplied(kwargs) == Range(COLOR_ATTRS) \cap DOMAIN kwargs

\* the supplied attribute that comes last in the order
LastSupplied(kwargs) ==
  ColorCheckOrder[CHOOSE i \in 1..Len(ColorCheckOrder) :
                    /\ ColorCheckOrder[i] \in Supplied(kwargs)
                    /\ \A j \in 1..Len(ColorCheckOrder) :
                         ColorCheckOrder[j] \in Supplied(kwargs) => j <= i]

\* C22: the first step of a turn-on stores the payload of every color
\* attribute supplied, leaves the payloads of the others as they were, and
\* sets the color mode to that of the supplied attribute that comes last in
\* the order HS, RGB, RGBW, RGBWW, XY, COLOR_TEMP; with no color attribute
\* it leaves color mode and payloads unchanged.  No later step of the
\* turn-on changes the color state.
C22_LastSuppliedAttributeWins ==
  [][\A t \in Tasks :
       /\ TurnOnStarts(t) =>
            LET kwargs == tasks'[t].kwargs
            IN  /\ \A attr \in Range(COLOR_ATTRS) :
                     ColorState(self')[attr] =
                       IF attr \in Supplied(kwargs) THEN kwargs[attr]
                       ELSE ColorState(self)[attr]
                /\ self'._color_mode =
                     IF Supplied(kwargs) = {} THEN self._color_mode
                     ELSE ModeOfAttr[LastSupplied(kwargs)]
       /\ TurnOnAdvances(t) \/ TurnOnEnds(t) =>
            ColorState(self') = ColorState(self)]_vars

\* a turn-on that supplied color_temp and xy_color at once has succeeded:
\* the mode is color_temp and both payloads are stored
C22_ColorTempWinsOverXy ==
  /\ last.kind = "turn_on_done"
  /\ self._color_mode = "color_temp"
  /\ self._color_temp = "ct2"
  /\ self._xy_color = "xy2"
  /\ self._hs_color # "hs2"

\* a turn-on with no color attribute has begun in a group whose color state
\* came from a member, and the color state is still the member's
C22_NoColorKeepsState ==
  /\ last.kind = "turn_on"
  /\ Supplied(last.call.data) = {}
  /\ self._color_mode = "hs"
  /\ self._hs_color = "hs1"

(***************************************************************************)
(* C23                                                                     *)
(***************************************************************************)
\* the position in the configured order of the first member that is on
FirstOnIndex ==
  CHOOSE i \in 1..Len(self._entities_config) :
    /\ hass_states[EntityIds(self)[i]].state = STATE_ON
    /\ \A j \in 1..(i - 1) : hass_states[EntityIds(self)[j]].state # STATE_ON

\* what the first on member reports
FirstOnAttributes == hass_states[EntityIds(self)[FirstOnIndex]].attributes

\* C23: after a pass with one or more members on, the six color fields of
\* the group are the attributes of the on member that comes first in the
\* configured order (None where it reports none) and the color mode is that
\* member's (None when it is not a value of ColorMode), whatever the
\* members after it report.
C23_FirstOnMemberWins ==
  (PassRan /\ OnMembers(hass_states) # {})
    => /\ PayloadCopied(FirstOnAttributes)
       /\ self._color_mode =
            ToColorMode(Get(FirstOnAttributes, ATTR_COLOR_MODE))

\* the pass ran with light.a off, light.b on in color_temp mode and light.c
\* on in hs mode: the group has the color of light.b
C23_SecondMemberBeforeThird ==
  /\ last.kind = "resync"
  /\ hass_states["light.a"].state = "off"
  /\ hass_states["light.b"] = [state |-> STATE_ON, attributes |-> AttrsCt]
  /\ hass_states["light.c"] = [state |-> STATE_ON, attributes |-> AttrsHs]
  /\ self._color_mode = "color_temp"
  /\ self._color_temp = "ct1"
  /\ self._hs_color = None

(***************************************************************************)
(* C24                                                                     *)
(***************************************************************************)
\* the members whose observation is present and neither unavailable nor
\* unknown
Available ==
  {e \in DOMAIN hass_states :
     hass_states[e].state \notin {None, STATE_UNAVAILABLE, STATE_UNKNOWN}}

\* the supported color modes the available members report
ReportedModes ==
  UNION {Range(Get(hass_states[e].attributes, ATTR_SUPPORTED_COLOR_MODES)) :
           e \in {x \in Available :
                    ATTR_SUPPORTED_COLOR_MODES
                      \in DOMAIN hass_states[x].attributes}}

\* the bitwise OR of the feature bitsets the available members report
ReportedFeatures ==
  UNION {hass_states[e].attributes[ATTR_SUPPORTED_FEATURES] :
           e \in {x \in Available :
                    ATTR_SUPPORTED_FEATURES
                      \in DOMAIN hass_states[x].attributes}}

\* C24 as stated: after every pass the supported color modes are the union
\* of the modes the available members report, or brightness alone when the
\* union is empty; the supported features are the OR of their features;
\* and the supported_color_modes property is never empty.
C24_ModesAreUnionOfReported ==
  /\ PassRan =>
       /\ self._supported_color_modes =
            IF ReportedModes # {} THEN ReportedModes ELSE {"brightness"}
       /\ self._supported_features = ReportedFeatures
  /\ supported_color_modes(self) # {}

\* C24: after every pass the supported color modes are the union of the
\* modes the available members, on or off, report that are values of
\* ColorMode, or brightness alone when there is none; the supported
\* features are the OR of the available members' features; and the
\* supported_color_modes property is never empty, before the first pass
\* either.
C24_ModesAreUnionOfRecognized ==
  /\ PassRan =>
       /\ self._supported_color_modes =
            IF ReportedModes \cap ColorMode # {}
            THEN ReportedModes \cap ColorMode ELSE {"brightness"}
       /\ self._supported_features = ReportedFeatures
       /\ supported_features(self) = ReportedFeatures
  /\ supported_color_modes(self) # {}

\* the pass ran with light.a on reporting the modes bogus and rgb, light.b
\* off reporting hs and color_temp, and light.c unavailable: the group
\* supports rgb, hs and color_temp, and the features of light.b
C24_UnionWithOffMember ==
  /\ last.kind = "resync"
  /\ hass_states["light.a"] = [state |-> STATE_ON, attributes |-> AttrsBogus]
  /\ hass_states["light.b"] = [state |-> "off", attributes |-> AttrsOff]
  /\ hass_states["light.c"].state = STATE_UNAVAILABLE
  /\ supported_color_modes(self) = {"rgb", "hs", "color_temp"}
  /\ supported_features(self) = {32}

(***************************************************************************)
(* C25                                                                     *)
(***************************************************************************)
\* the group g without the members that are not available in states
WithoutUnavailable(g, states) ==
  [g EXCEPT !._entities_config =
     SelectSeq(@, LAMBDA c :
       states[c.entity_id].state
         \notin {None, STATE_UNAVAILABLE, STATE_UNKNOWN})]

\* the step runs a pass
PassRuns == (~added /\ added') \/ hass_states' # hass_states

\* the group as the pass of the step finds it
BeforePass == IF added THEN self ELSE RestoreState(self, restore_state)

\* C25: a pass leaves _is_on, the supported color modes, the supported
\* features and the color state as the pass would leave them in the group
\* without the members that are absent, unavailable or unknown; when no
\* member is available it leaves _is_on false, brightness as the only
\* supported color mode, no supported feature and the color state as it
\* was.
C25_UnavailableMembersContributeNothing ==
  [][PassRuns =>
       LET without == _update_state_from_members(
                        WithoutUnavailable(BeforePass, hass_states'),
                        hass_states')
       IN  /\ self'._is_on = without._is_on
           /\ self'._supported_color_modes = without._supported_color_modes
           /\ self'._supported_features = without._supported_features
           /\ ColorState(self') = ColorState(without)
           /\ Len(WithoutUnavailable(self, hass_states')._entities_config) = 0
                => /\ ~self'._is_on
                   /\ self'._supported_color_modes = {"brightness"}
                   /\ self'._supported_features = {}
                   /\ ColorState(self') = ColorState(self)]_vars

\* the pass ran with light.a absent, light.b unavailable and light.c
\* unknown though reporting supported color modes: the group is off,
\* supports brightness only and keeps the hs color it had
C25_NoMemberAvailable ==
  /\ last.kind = "resync"
  /\ hass_states["light.a"].state = None
  /\ hass_states["light.b"].state = STATE_UNAVAILABLE
  /\ hass_states["light.c"] = [state |-> STATE_UNKNOWN, attributes |-> AttrsOff]
  /\ ~self._is_on
  /\ self._supported_color_modes = {"brightness"}
  /\ self._supported_features = {}
  /\ self._color_mode = "hs"

(***************************************************************************)
(* C26                                                                     *)
(***************************************************************************)
\* when every awaited call is resolved, every turn-on and turn-off that was
\* started concludes, and a set guard flag is cleared
C26_EveryOperationConcludes ==
  /\ \A t \in Tasks : (tasks[t].pc # "idle") ~> (tasks[t].pc = "idle")
  /\ self._applying_state ~> ~self._applying_state

\* C26 as stated, for a dispatch that is not resolved: in every step
\* that leaves the turn-on or turn-off of a slot waiting for its call, the
\* guard flag is set afterwards and the step is not a pass over the
\* members.  An operation whose call is never resolved takes only such
\* steps, so this is what keeps the flag set and member state changes
\* ignored for as long as it waits.
C26_UnresolvedDispatchKeepsGuard ==
  [][\A t \in Tasks :
       (tasks[t].pc # "idle" /\ tasks'[t] = tasks[t])
         => (self'._applying_state /\ last'.kind # "resync")]_vars

\* a turn-off still awaits its call, the flag has been cleared by another
\* operation that concluded, and a member state change has run a pass
C26_PassWhileTurnOffAwaits ==
  /\ \E t \in Tasks : tasks[t].pc = "turn_off"
  /\ ~self._applying_state
  /\ last.kind = "resync"

(***************************************************************************)
(* C27                                                                     *)
(***************************************************************************)
\* what a pass derives from the members
Derived(g) ==
  [color |-> ColorState(g),
   supported_color_modes |-> g._supported_color_modes,
   supported_features |-> g._supported_features]

\* C27: a member state change that arrives while _applying_state is set is
\* dropped: the step in which a turn-on or turn-off concludes runs no pass.
\* It changes nothing of the group but _is_on and _applying_state, and
\* leaves _is_on true after a successful turn-on and false after a
\* successful turn-off whatever the members report.  What a pass derives
\* from the members changes, apart from the color a turn-on stores from its
\* arguments, only in async_added_to_hass and in a member state change that
\* arrives while the flag is clear.
C27_DroppedNotDeferred ==
  [][/\ last'.kind \in {"turn_on_done", "turn_off_done",
                        "turn_on_failed", "turn_off_failed"}
          => /\ Derived(self') = Derived(self)
             /\ self'._master_brightness = self._master_brightness
             /\ hass_states' = hass_states
     /\ last'.kind = "turn_on_done" => self'._is_on
     /\ last'.kind = "turn_off_done" => ~self'._is_on
     /\ last'.kind = "ignored" => self' = self
     /\ (Derived(self') # Derived(self) /\ last'.kind # "turn_on")
          => /\ last'.kind \in {"added", "resync"}
             /\ last'.kind = "resync" => ~self._applying_state]_vars

\* a turn-off has succeeded while a member is on, its state change having
\* been ignored during the turn-off: the group is off and no operation is
\* in progress
C27_OffWhileMemberOn ==
  /\ last.kind = "turn_off_done"
  /\ AllIdle
  /\ SomeMemberOn(hass_states)
  /\ ~self._is_on

(***************************************************************************)
(* C28                                                                     *)
(***************************************************************************)
\* the step is the failure of the turn-on in slot t at its i-th member
TurnOnFailsAt(t, i) ==
  /\ TurnOnEnds(t)
  /\ last'.kind = "turn_on_failed"
  /\ tasks[t].i = i

\* C28: the first step of a turn-on stores the brightness and the color
\* attributes it was given; no later step of it changes them, and the step
\* in which the call to a member fails changes nothing of the group but
\* _applying_state: master brightness and color state keep their values
\* and _is_on is left as it is.  The failure comes after the calls to the
\* members before the failing one were issued and awaited, and issues no
\* call itself: nothing is sent to take those commands back.
C28_FailedTurnOnNotRolledBack ==
  [][\A t \in Tasks :
       /\ TurnOnStarts(t) =>
            LET kwargs == tasks'[t].kwargs
            IN  /\ ATTR_BRIGHTNESS \in DOMAIN kwargs =>
                     self'._master_brightness = kwargs[ATTR_BRIGHTNESS]
                /\ \A attr \in Supplied(kwargs) :
                     ColorState(self')[attr] = kwargs[attr]
       /\ TurnOnAdvances(t) =>
            /\ self'._master_brightness = self._master_brightness
            /\ ColorState(self') = ColorState(self)
       /\ \A i \in 1..Len(self._entities_config) :
            TurnOnFailsAt(t, i) =>
              /\ self'._master_brightness = self._master_brightness
              /\ ColorState(self') = ColorState(self)
              /\ self'._is_on = self._is_on
              /\ self' = [self EXCEPT !._applying_state = FALSE]
              /\ last'.call.service = None
              /\ ~last'.wrote
       /\ TurnOnEnds(t) /\ last'.kind = "turn_on_failed" =>
            tasks[t].i \in 1..Len(self._entities_config)]_vars

\* a turn-on with brightness 64 and an hs color has failed in a group that
\* was off with the default brightness: the group holds 64 and the hs
\* color, and is still off
C28_ArgumentsKeptAfterFailure ==
  /\ last.kind = "turn_on_failed"
  /\ AllIdle
  /\ self._master_brightness = 64
  /\ self._color_mode = "hs"
  /\ self._hs_color = "hs2"
  /\ ~self._is_on
  /\ ~SomeMemberOn(hass_states)

(***************************************************************************)
(* C29, C30: properties of the brightness mapping checked under SpecRange. *)
(***************************************************************************)
Inverted == Member.min_brightness > Member.max_brightness

\* C29: for a member whose minimum percent is above its maximum percent
\* the result is the minimum bound on the 0-255 scale,
\* int((min_brightness_pct / 100) * 255), whatever the master brightness,
\* the offset and the offset type.
C29_InvertedBoundsGiveMinimum ==
  (Returned /\ Inverted)
    => /\ calc.result = PctToBrightness(Member.min_brightness)
       /\ calc.result = (255 * Member.min_brightness) \div 100

\* bounds 90 and 10 percent, relative mode, offset 0, master 128: the
\* target is 128, inside neither order of the bounds, and the result is
\* 229, the minimum
C29_MinimumAboveMaximum ==
  /\ Returned
  /\ Inverted
  /\ self._offset_type = OFFSET_TYPE_RELATIVE
  /\ Member.min_brightness = 90
  /\ Member.max_brightness = 10
  /\ Member.offset = 0
  /\ calc.master_brightness = 128
  /\ calc.result = 229

\* the group with the offset of its one member replaced
WithOffset(g, offset) ==
  [g EXCEPT !._entities_config[1].offset = offset]

\* C30: with the member's configuration and the offset type fixed, the
\* result for master brightness m + 1 is not below the result for m
\* (m in 0..254), and with the master brightness fixed the result for
\* offset o + 1 is not below the result for o (o in -100..99).  Along a
\* whole range of master brightnesses or offsets the results are therefore
\* non-decreasing.
C30_NonDecreasing ==
  Returned
    => /\ calc.master_brightness < 255 =>
            calc.result <= _calculate_light_brightness(
                             self, calc.entity_id, calc.master_brightness + 1)
       /\ Member.offset < 100 =>
            calc.result <= _calculate_light_brightness(
                             WithOffset(self, Member.offset + 1),
                             calc.entity_id, calc.master_brightness)

\* absolute mode, bounds 10 and 90 percent, offset 20, master 128: the
\* result is 179, strictly below the 180 of master 129 and the 181 of
\* offset 21
C30_StrictlyIncreasingStep ==
  /\ Returned
  /\ self._offset_type = OFFSET_TYPE_ABSOLUTE
  /\ Member.min_brightness = 10
  /\ Member.max_brightness = 90
  /\ Member.offset = 20
  /\ calc.master_brightness = 128
  /\ calc.result < _calculate_light_brightness(self, calc.entity_id, 129)
  /\ calc.result < _calculate_light_brightness(WithOffset(self, 21),
                                               calc.entity_id, 128)

(***************************************************************************)
(* C31                                                                     *)
(***************************************************************************)
\* the names of the stored entries i and j are equal ignoring case
SameNameIgnoringCase(i, j) ==
  /\ NameOf(entries[i].data).type = "str"
  /\ NameOf(entries[j].data).type = "str"
  /\ Lower(NameOf(entries[i].data).s) = Lower(NameOf(entries[j].data).s)

\* C31: no two stored config entries have names that are equal ignoring
\* case.
C31_NamesUniqueIgnoringCase ==
  \A i, j \in 1..Len(entries) : i # j => ~SameNameIgnoringCase(i, j)

\* a YAML edit that changes the name of its entry gives it a name no other
\* entry has; it may store the name the entry had
C31_EditTakesNoOtherName ==
  [][\A f \in DOMAIN flows :
       (flows[f].step = "edit_yaml" /\ flows'[f].step = "none"
          /\ entries' # entries)
         => \A j \in 1..Len(entries) :
              j # flows[f].entry =>
                Lower(NameOf(entries'[flows[f].entry].data).s)
                  # Lower(NameOf(entries[j].data).s)]_vars

\* two entries are stored, named "Desk" and "desk", and no flow is in
\* progress
C31_DeskTwice ==
  /\ Len(entries) = 2
  /\ NameOf(entries[1].data).s = "Desk"
  /\ NameOf(entries[2].data).s = "desk"
  /\ \A f \in DOMAIN flows : flows[f].step = "none"

(***************************************************************************)
(* C32                                                                     *)
(***************************************************************************)
\* the lights stored in a configuration
StoredLights(data) == ItemOr(data, CONF_LIGHTS, PyList(<< >>)).items

\* entry e after the step holds the lights selected, in the order of the
\* selection: a light the entry had is stored as it was, a light it did
\* not have with the numbers entered for it or the defaults; the rest of
\* the entry and the other entries are as before
SavedAs(e, selected_lights, numbers) ==
  LET old == StoredLights(entries[e].data)
      new == StoredLights(entries'[e].data)
      had(entity_id) ==
        {k \in 1..Len(old) : Item(old[k], CONF_ENTITY_ID).s = entity_id}
  IN  /\ Len(new) = Len(selected_lights)
      /\ \A i \in 1..Len(new) :
           /\ Item(new[i], CONF_ENTITY_ID) = PyStr(selected_lights[i])
           /\ IF had(selected_lights[i]) # {}
              THEN \E k \in had(selected_lights[i]) : new[i] = old[k]
              ELSE /\ new[i].keys = <<CONF_ENTITY_ID, CONF_OFFSET,
                                      CONF_MIN_BRIGHTNESS,
                                      CONF_MAX_BRIGHTNESS>>
                   /\ <<Item(new[i], CONF_OFFSET),
                        Item(new[i], CONF_MIN_BRIGHTNESS),
                        Item(new[i], CONF_MAX_BRIGHTNESS)>>
                        = IF selected_lights[i] \in DOMAIN numbers
                          THEN <<PyInt(numbers[selected_lights[i]][1]),
                                 PyInt(numbers[selected_lights[i]][2]),
                                 PyInt(numbers[selected_lights[i]][3])>>
                          ELSE <<PyInt(0), PyInt(1), PyInt(100)>>
      /\ \A k \in 1..Len(old) :
           Item(old[k], CONF_ENTITY_ID).s \notin Range(selected_lights)
             => \A i \in 1..Len(new) :
                  Item(new[i], CONF_ENTITY_ID) # Item(old[k], CONF_ENTITY_ID)
      /\ entries'[e].title = entries[e].title
      /\ \A key \in {CONF_NAME, CONF_OFFSET_TYPE} :
           /\ HasKey(entries'[e].data, key) = HasKey(entries[e].data, key)
           /\ ItemOr(entries'[e].data, key, PyNone)
                = ItemOr(entries[e].data, key, PyNone)
      /\ Len(entries') = Len(entries)
      /\ \A j \in 1..Len(entries) : j # e => entries'[j] = entries[j]

\* C32: a manage-lights change that is saved, at once because no light was
\* added or after the form for the added lights, stores exactly the
\* lights selected, in selection order: a light already in the group with
\* its stored entry unchanged, a removed light not at all, an added light
\* with the values entered for it or the defaults 0, 1 and 100; name,
\* offset type and title of the entry are unchanged.
C32_SaveStoresSelection ==
  [][\A f \in DOMAIN flows :
       /\ \A new_lights \in ManagedLights :
            (async_step_manage_lights(f, new_lights)
               /\ flows'[f] = Ended(CreateEntry))
              => SavedAs(flows[f].entry, new_lights, << >>)
       /\ \A numbers \in NumbersFor(flows[f]._added_lights) :
            async_step_new_light_offsets(f, numbers)
              => SavedAs(flows[f].entry, flows[f]._selected_lights,
                         numbers)]_vars

\* the entry "Desk", imported with light.a and light.b, after light.b and
\* light.c were selected: light.a is gone, light.b is stored as imported,
\* with its offset -25 and the bounds 1 and 100, and light.c with the numbers
\* entered, -25, 10 and 90
C32_KeptAndAdded ==
  /\ Len(entries) >= 1
  /\ NameOf(entries[1].data) = PyStr("Desk")
  /\ \A f \in DOMAIN flows : flows[f] = Ended(CreateEntry)
  /\ LET lights == StoredLights(entries[1].data)
     IN  /\ Len(lights) = 2
         /\ Item(lights[1], CONF_ENTITY_ID) = PyStr("light.b")
         /\ Item(lights[1], CONF_OFFSET) = PyInt(-25)
         /\ Item(lights[1], CONF_MIN_BRIGHTNESS) = PyInt(1)
         /\ Item(lights[1], CONF_MAX_BRIGHTNESS) = PyInt(100)
         /\ Item(lights[2], CONF_ENTITY_ID) = PyStr("light.c")
         /\ Item(lights[2], CONF_OFFSET) = PyInt(-25)
         /\ Item(lights[2], CONF_MIN_BRIGHTNESS) = PyInt(10)
         /\ Item(lights[2], CONF_MAX_BRIGHTNESS) = PyInt(90)

(***************************************************************************)
(* C33                                                                     *)
(***************************************************************************)
\* the step is async_added_to_hass
Startup == ~added /\ added'

\* the stored state supplies a brightness: it has a master_brightness or
\* a brightness attribute
SuppliesBrightness(last_state) ==
  /\ last_state.state # None
  /\ \/ ATTR_MASTER_BRIGHTNESS \in DOMAIN last_state.attributes
     \/ ATTR_BRIGHTNESS \in DOMAIN last_state.attributes

\* the brightness it supplies: master_brightness before brightness
RestoredBrightness(last_state) ==
  IF ATTR_MASTER_BRIGHTNESS \in DOMAIN last_state.attributes
  THEN last_state.attributes[ATTR_MASTER_BRIGHTNESS]
  ELSE last_state.attributes[ATTR_BRIGHTNESS]

\* C33: after async_added_to_hass _is_on holds exactly when some member
\* reports on, whatever the stored state said, and _master_brightness is
\* the brightness the stored state supplied, or what it was where the
\* stored state supplied none.
C33_RestoredOnOffOverwritten ==
  [][Startup =>
       /\ self'._is_on <=> SomeMemberOn(hass_states')
       /\ self'._master_brightness =
            IF SuppliesBrightness(restore_state)
            THEN RestoredBrightness(restore_state)
            ELSE self._master_brightness]_vars

\* the stored state was on with master brightness 64, no member is on:
\* after async_added_to_hass the group is off and holds 64
C33_RestoredOnButMembersOff ==
  /\ last.kind = "added"
  /\ restore_state.state = STATE_ON
  /\ ~SomeMemberOn(hass_states)
  /\ ~self._is_on
  /\ self._master_brightness = 64

\* the stored state was off, a member is on: the group is on
C33_RestoredOffButMemberOn ==
  /\ last.kind = "added"
  /\ restore_state.state = "off"
  /\ SomeMemberOn(hass_states)
  /\ self._is_on

(***************************************************************************)
(* C34                                                                     *)
(***************************************************************************)
\* C34: in every reachable state the brightness property is the master
\* brightness when _is_on is true and None when it is false, and the
\* master_brightness attribute of extra_state_attributes is the master
\* brightness either way.
C34_BrightnessOnlyWhenOn ==
  /\ self._is_on => brightness(self) = PyInt(self._master_brightness)
  /\ ~self._is_on => brightness(self) = PyNone
  /\ extra_state_attributes(self)[ATTR_MASTER_BRIGHTNESS]
       = self._master_brightness

\* a turn-on with brightness 200 has stored it and has not yet marked the
\* group on: brightness is None while master_brightness reports 200
C34_OffWithStoredBrightness ==
  /\ \E t \in Tasks : tasks[t].pc = "turn_on"
  /\ ~self._is_on
  /\ self._master_brightness = 200
  /\ brightness(self) = PyNone
  /\ extra_state_attributes(self)[ATTR_MASTER_BRIGHTNESS] = 200

\* the group is on: brightness and master_brightness report the same
C34_OnReportsMaster ==
  /\ self._is_on
  /\ AllIdle
  /\ brightness(self).type = "int"
  /\ brightness(self).n = extra_state_attributes(self)[ATTR_MASTER_BRIGHTNESS]

====
